---------------------------- MODULE Spec2Model ----------------------------
(***************************************************************************)
(* Model of the inverted-index builder: tokenizer and in-memory index      *)
(* (index.rs), index file writer (write.rs), index file reader (read.rs),  *)
(* temporary file allocator (tmp.rs), hierarchical file merge (merge.rs)   *)
(* and the two build drivers of bin/create.rs.                             *)
(*                                                                         *)
(* Files are modelled at byte level: a file is a sequence of bytes         *)
(* (0..255), integers are little-endian.  Texts are sequences of Unicode   *)
(* code points; terms and paths are byte sequences.                        *)
(***************************************************************************)
EXTENDS Integers, Sequences, FiniteSets, TLC

(***************************************************************************)
(* Bounds of the model.                                                    *)
(***************************************************************************)
\* Largest number of documents of a single-threaded build.
MaxDocs == 9
\* Largest number of documents of a pipelined build.
MaxPipeDocs == 3
\* the largest number of documents of an index written and read back
MaxLoadDocs == 2
\* the largest number of spans handed to highlight_file
MaxSpans == 2
\* the largest start_pos and end_pos of a span handed to highlight_file
MaxPos == 3
\* Stand-in for REASONABLE_SIZE (100_000_000 in index.rs:195), scaled down so
\* that an accumulated index becomes "large" within the document bounds.
ReasonableSize == 1

(***************************************************************************)
(* Program constants.                                                      *)
(***************************************************************************)
NSTREAMS == 8
HEADER_SIZE == 8
MaxTries == 999

(***************************************************************************)
(* Little-endian integers, as byteorder writes and reads them.             *)
(***************************************************************************)
\* Numbers are kept exact below Huge and saturate at Huge: every length, offset
\* and document id the builds produce is far below it, and a decoded number at
\* or above it (read from bytes that are no number) only needs to be "larger
\* than any file".
Huge == 64 * 65536

Sat(n) == IF n >= Huge THEN Huge ELSE n

LE32(n) ==
    << n % 256, (n \div 256) % 256, (n \div 65536) % 256, (n \div 16777216) % 256 >>

LE64(n) == LE32(n) \o << 0, 0, 0, 0 >>

\* the i32 -1, HITS_SEPERATOR, as its four bytes
HITS_SEPERATOR == << 255, 255, 255, 255 >>

\* u32 / u64 found at 0-based byte offset pos of b; only used when the bytes exist
U32At(b, pos) ==
    IF b[pos + 4] # 0 \/ b[pos + 3] >= 64 THEN Huge
    ELSE b[pos + 1] + 256 * b[pos + 2] + 65536 * b[pos + 3]

U64At(b, pos) ==
    IF \E k \in 5..8 : b[pos + k] # 0 THEN Huge ELSE U32At(b, pos)

\* the u64 at pos exceeds isize::MAX (its top bit is set)
U64TopBit(b, pos) == b[pos + 8] >= 128

\* b[from .. from+n-1] with 0-based from
Slice(b, from, n) == SubSeq(b, from + 1, from + n)

RECURSIVE Concat(_)
Concat(ss) == IF ss = << >> THEN << >> ELSE Head(ss) \o Concat(Tail(ss))

\* byte-wise lexicographic order, the order of Rust's String and [u8]
RECURSIVE LexLess(_, _)
LexLess(a, b) ==
    IF b = << >> THEN FALSE
    ELSE IF a = << >> THEN TRUE
    ELSE IF Head(a) # Head(b) THEN Head(a) < Head(b)
    ELSE LexLess(Tail(a), Tail(b))

LexLeq(a, b) == a = b \/ LexLess(a, b)

(***************************************************************************)
(* Characters: code points, their UTF-8 encoding, char::is_alphanumeric    *)
(* and char::to_lowercase, on the alphabet the model draws texts from.     *)
(***************************************************************************)
Utf8(c) == IF c < 128 THEN << c >> ELSE << 192 + (c \div 64), 128 + (c % 64) >>

IsAlphanumeric(c) ==
    \/ c \in 48..57
    \/ c \in 65..90
    \/ c \in 97..122
    \/ c \in 192..214 \/ c \in 216..246 \/ c \in 248..255

ToLowercaseChar(c) ==
    IF c \in 65..90 \/ c \in 192..214 \/ c \in 216..222 THEN c + 32 ELSE c

ToLowercase(text) == [k \in 1..Len(text) |-> ToLowercaseChar(text[k])]

Utf8Bytes(text) == Concat([k \in 1..Len(text) |-> Utf8(text[k])])

\* str::char_indices: the byte offset of every character
RECURSIVE CharIndices(_, _)
CharIndices(text, off) ==
    IF text = << >> THEN << >>
    ELSE << [idx |-> off, ch |-> Head(text)] >>
         \o CharIndices(Tail(text), off + Len(Utf8(Head(text))))

\* String::from_utf8 succeeds
RECURSIVE Utf8Valid(_)
Utf8Valid(b) ==
    IF b = << >> THEN TRUE
    ELSE LET c == b[1]
             Cont(k) == Len(b) >= k /\ b[k] \in 128..191
         IN  IF c < 128 THEN Utf8Valid(Tail(b))
             ELSE IF c \in 194..223
                  THEN Cont(2) /\ Utf8Valid(SubSeq(b, 3, Len(b)))
             ELSE IF c \in 224..239
                  THEN /\ Cont(2) /\ Cont(3)
                       /\ (c = 224 => b[2] >= 160)
                       /\ (c = 237 => b[2] <= 159)
                       /\ Utf8Valid(SubSeq(b, 4, Len(b)))
             ELSE IF c \in 240..244
                  THEN /\ Cont(2) /\ Cont(3) /\ Cont(4)
                       /\ (c = 240 => b[2] >= 144)
                       /\ (c = 244 => b[2] <= 143)
                       /\ Utf8Valid(SubSeq(b, 5, Len(b)))
             ELSE FALSE

(***************************************************************************)
(* index.rs: tokenize                                                      *)
(***************************************************************************)
\* One pass of the loop over char_vec; st = [tokens, last_pos, in_token, token_start]
RECURSIVE TokenizeLoop(_, _, _)
TokenizeLoop(bytes, ci, st) ==
    IF ci = << >> THEN st
    ELSE LET idx == Head(ci).idx
             ch == Head(ci).ch
             st1 ==
                IF IsAlphanumeric(ch)
                THEN IF ~st.in_token
                     THEN [st EXCEPT !.token_start = idx, !.in_token = TRUE]
                     ELSE st
                ELSE IF st.in_token
                     THEN [st EXCEPT
                             !.tokens = Append(@, [token |-> Slice(bytes, st.token_start,
                                                                    idx - st.token_start),
                                                   start_pos |-> st.token_start,
                                                   end_pos |-> idx - 1]),
                             !.in_token = FALSE]
                     ELSE st
         IN  TokenizeLoop(bytes, Tail(ci), [st1 EXCEPT !.last_pos = idx])

\* the end of tokenize: a token that extends to the end of the string
TokenizeEnd(bytes, st) ==
    IF st.in_token
    THEN Append(st.tokens,
                [token |-> Slice(bytes, st.token_start, Len(bytes) - st.token_start),
                 start_pos |-> st.token_start,
                 end_pos |-> st.last_pos])
    ELSE st.tokens

TokenizeBytes(text, bytes) ==
    TokenizeEnd(bytes,
                TokenizeLoop(bytes, CharIndices(text, 0),
                             [tokens |-> << >>, last_pos |-> 0,
                              in_token |-> FALSE, token_start |-> 0]))

\* tokenize(text): the tokens with their byte positions
tokenize(text) == TokenizeBytes(text, Utf8Bytes(text))

(***************************************************************************)
(* index.rs: InMemoryIndex                                                 *)
(***************************************************************************)
\* a map is a function whose domain is the set of its keys
EmptyMap == << >>

Put(m, k, v) == [x \in DOMAIN m \cup {k} |-> IF x = k THEN v ELSE m[x]]

\* InMemoryIndex::new
NewIndex == [word_count |-> 0, map |-> EmptyMap, docs |-> EmptyMap]

\* the loop of from_single_document over the tokens
RECURSIVE IndexTokens(_, _, _)
IndexTokens(index, document_id, tokens) ==
    IF tokens = << >> THEN index
    ELSE LET t == Head(tokens)
             hits == IF t.token \in DOMAIN index.map
                     THEN index.map[t.token]
                     ELSE << HITS_SEPERATOR \o LE32(document_id) >>
             hits1 == [hits EXCEPT ![1] = @ \o LE32(t.start_pos) \o LE32(t.end_pos)]
         IN  IndexTokens([index EXCEPT !.map = Put(@, t.token, hits1),
                                       !.word_count = @ + 1],
                         document_id, Tail(tokens))

\* InMemoryIndex::from_single_document
from_single_document(document_id, path, text) ==
    [IndexTokens(NewIndex, document_id, tokenize(ToLowercase(text)))
        EXCEPT !.docs = Put(@, document_id, [id |-> document_id, path |-> path])]

\* a merge that puts the hits of `other` before those of `self`
IndexMergeBefore(self, other) ==
    [word_count |-> self.word_count + other.word_count,
     map |-> [t \in DOMAIN self.map \cup DOMAIN other.map |->
                 (IF t \in DOMAIN other.map THEN other.map[t] ELSE << >>)
                 \o (IF t \in DOMAIN self.map THEN self.map[t] ELSE << >>)],
     docs |-> [d \in DOMAIN self.docs \cup DOMAIN other.docs |->
                 IF d \in DOMAIN other.docs THEN other.docs[d] ELSE self.docs[d]]]

\* InMemoryIndex::merge
IndexMerge(self, other) ==
    [word_count |-> self.word_count + other.word_count,
     map |-> [t \in DOMAIN self.map \cup DOMAIN other.map |->
                 (IF t \in DOMAIN self.map THEN self.map[t] ELSE << >>)
                 \o (IF t \in DOMAIN other.map THEN other.map[t] ELSE << >>)],
     docs |-> [d \in DOMAIN self.docs \cup DOMAIN other.docs |->
                 IF d \in DOMAIN other.docs THEN other.docs[d] ELSE self.docs[d]]]

\* InMemoryIndex::is_empty
is_empty(index) == index.word_count = 0

\* InMemoryIndex::is_large
is_large(index) == index.word_count > ReasonableSize

(***************************************************************************)
(* tmp.rs: TmpDir.  A temporary file tmp%08x.dat is named by its number;   *)
(* exists is the set of the numbers of the files of the directory.         *)
(***************************************************************************)
RECURSIVE CreateLoop(_, _, _)
CreateLoop(n, try, exists) ==
    IF n \notin exists
    THEN [ok |-> TRUE, filename |-> n, n |-> n + 1]
    ELSE IF try < MaxTries
         THEN CreateLoop(n + 1, try + 1, exists)
         ELSE [ok |-> FALSE, filename |-> n, n |-> n + 1]

\* a create that takes the name of its counter whether or not it exists
TmpDirCreateBlind(n, exists) == [ok |-> TRUE, filename |-> n, n |-> n + 1]

\* TmpDir::create: the file created and the new counter, or AlreadyExists
TmpDirCreate(n, exists) == CreateLoop(n, 1, exists)

(***************************************************************************)
(* write.rs: IndexFileWriter.  main holds the bytes written after the      *)
(* 8-byte header.                                                          *)
(***************************************************************************)
\* IndexFileWriter::new
IndexFileWriterNew == [offset |-> HEADER_SIZE, main |-> << >>, contents_buf |-> << >>]

\* IndexFileWriter::write_main
write_main(w, buf) == [w EXCEPT !.main = @ \o buf, !.offset = @ + Len(buf)]

\* IndexFileWriter::write_contents_entry
write_contents_entry(w, term, df, offset, nbytes) ==
    [w EXCEPT !.contents_buf =
        @ \o LE64(offset) \o LE64(nbytes) \o LE32(df) \o LE32(Len(term)) \o term]

\* IndexFileWriter::write_document
write_document(w, doc) ==
    [w EXCEPT !.main = @ \o LE32(doc.id) \o LE64(Len(doc.path)) \o doc.path,
              !.offset = @ + 4 + 8 + Len(doc.path)]

\* IndexFileWriter::finish: the bytes of the file once the header is rewritten
WriterFinish(w) == LE64(w.offset) \o w.main \o w.contents_buf

\* An IndexFileWriter dropped without finish: its BufWriter flushes what was
\* written, the header keeps its placeholder and contents_buf is discarded.
WriterDropped(w) == LE64(0) \o w.main

\* the terms of a set in byte order (sort_by of write_index_to_tmp_file)
RECURSIVE SortTerms(_)
SortTerms(S) ==
    IF S = {} THEN << >>
    ELSE LET m == CHOOSE x \in S : \A y \in S : LexLeq(x, y)
         IN  << m >> \o SortTerms(S \ {m})

RECURSIVE WriteTerms(_, _, _)
WriteTerms(w, map, terms) ==
    IF terms = << >> THEN w
    ELSE LET term == Head(terms)
             hits == map[term]
             start == w.offset
             w1 == write_main(w, Concat(hits))
             stop == w1.offset
         IN  WriteTerms(write_contents_entry(w1, term, Len(hits), start, stop - start),
                        map, Tail(terms))

RECURSIVE WriteDocs(_, _, _)
WriteDocs(w, docs, order) ==
    IF order = << >> THEN w
    ELSE LET start == w.offset
             w1 == write_document(w, docs[Head(order)])
             stop == w1.offset
         IN  WriteDocs(write_contents_entry(w1, << >>, 0, start, stop - start),
                       docs, Tail(order))

\* write_index_to_tmp_file: the bytes written to the file `filename`.  order is
\* the order in which the HashMap index.docs yields its documents.
write_index_to_tmp_file(index, order) ==
    LET w1 == WriteTerms(IndexFileWriterNew, index.map, SortTerms(DOMAIN index.map))
        w2 == WriteDocs(w1, index.docs, order)
    IN  WriterFinish(w2)

\* The iteration orders of a HashMap<u32, Document> the model draws from:
\* ascending and descending document id.
RECURSIVE Ascending(_)
Ascending(S) ==
    IF S = {} THEN << >>
    ELSE LET m == CHOOSE x \in S : \A y \in S : x <= y
         IN  << m >> \o Ascending(S \ {m})

Reverse(s) == [k \in 1..Len(s) |-> s[Len(s) + 1 - k]]

DocOrders(docs) == {Ascending(DOMAIN docs), Reverse(Ascending(DOMAIN docs))}

(***************************************************************************)
(* read.rs: IndexFileReader.  A reader holds the bytes of the file it      *)
(* opened (the inode outlives the unlink), the position of terms_docs,     *)
(* the position of entries, and next: << >> for None, << e >> for Some(e). *)
(***************************************************************************)
\* IndexFileReader::read_entry at position pos of the file bytes b
read_entry(b, pos) ==
    IF pos + 8 > Len(b)
    THEN [res |-> "none", next |-> << >>, pos |-> pos]
    ELSE IF pos + 24 > Len(b)
    THEN [res |-> "err", next |-> << >>, pos |-> pos]
    ELSE LET term_len == U32At(b, pos + 20)
         IN  IF pos + 24 + term_len > Len(b)
             THEN [res |-> "err", next |-> << >>, pos |-> pos]
             ELSE IF ~Utf8Valid(Slice(b, pos + 24, term_len))
             THEN [res |-> "err", next |-> << >>, pos |-> pos]
             ELSE [res |-> "some",
                   next |-> << [term |-> Slice(b, pos + 24, term_len),
                                df |-> U32At(b, pos + 16),
                                offset |-> U64At(b, pos),
                                nbytes |-> U64At(b, pos + 8),
                                offset_top |-> U64TopBit(b, pos),
                                nbytes_top |-> U64TopBit(b, pos + 8)] >>,
                   pos |-> pos + 24 + term_len]

\* IndexFileReader::open_and_delete on a file with bytes b
OpenWithFirst(b, first) ==
    IF first.res = "err"
    THEN [res |-> "err"]
    ELSE [res |-> "ok", bytes |-> b, terms_docs |-> 8,
          entries |-> first.pos, next |-> first.next]

open_and_delete(b) ==
    IF Len(b) < 8 \/ U64TopBit(b, 0)
    THEN [res |-> "err"]
    ELSE OpenWithFirst(b, read_entry(b, U64At(b, 0)))

\* IndexFileReader::peek is r.next; IndexFileReader::is_at
is_at(r, term) == r.next # << >> /\ r.next[1].term = term

\* IndexFileReader::move_entry_to.  Allocating the buffer panics with a
\* capacity overflow when nbytes exceeds isize::MAX; a smaller allocation is
\* taken to succeed, and read_exact then fails when the file is too short.
\* the end of move_entry_to: self.next = Self::read_entry(&mut self.entries)?
MoveEntryNext(r1, out1, nx) ==
    IF nx.res = "err"
    THEN [res |-> "err", r |-> r1, out |-> out1]
    ELSE [res |-> "ok", r |-> [r1 EXCEPT !.entries = nx.pos, !.next = nx.next],
          out |-> out1]

move_entry_to(r, out) ==
    IF r.next = << >> THEN [res |-> "err", r |-> r, out |-> out]
    ELSE IF r.next[1].nbytes_top THEN [res |-> "panic", r |-> r, out |-> out]
    ELSE IF r.terms_docs + r.next[1].nbytes > Len(r.bytes)
    THEN [res |-> "err", r |-> r, out |-> out]
    ELSE MoveEntryNext([r EXCEPT !.terms_docs = @ + r.next[1].nbytes],
                       write_main(out, Slice(r.bytes, r.terms_docs, r.next[1].nbytes)),
                       read_entry(r.bytes, r.entries))

\* IndexFileReader::iter_next_entry: an error of read_entry leaves next = None
IterNext(r, nx) ==
    IF nx.res = "err" THEN [r EXCEPT !.next = << >>]
    ELSE [r EXCEPT !.entries = nx.pos, !.next = nx.next]

iter_next_entry(r) == IterNext(r, read_entry(r.bytes, r.entries))

(***************************************************************************)
(* merge.rs: merge_streams                                                 *)
(***************************************************************************)
\* The scan of the heads of all streams: sel.term is << >> for None and
\* << t >> for Some(t).
RECURSIVE SelectTerm(_, _, _)
\* a scan that keeps the df of the first reader standing at the term
SelectTermFirstDf(streams, k, sel) ==
    IF k > Len(streams) THEN sel
    ELSE IF streams[k].next = << >> THEN SelectTerm(streams, k + 1, sel)
    ELSE LET entry == streams[k].next[1]
         IN  IF entry.term = << >>
             THEN [term |-> << entry.term >>, nbytes |-> entry.nbytes, df |-> entry.df]
             ELSE IF sel.term = << >> \/ LexLess(entry.term, sel.term[1])
             THEN SelectTerm(streams, k + 1,
                             [term |-> << entry.term >>, nbytes |-> entry.nbytes,
                              df |-> entry.df])
             ELSE IF entry.term = sel.term[1]
             THEN SelectTerm(streams, k + 1,
                             [sel EXCEPT !.nbytes = Sat(@ + entry.nbytes)])
             ELSE SelectTerm(streams, k + 1, sel)

SelectTerm(streams, k, sel) ==
    IF k > Len(streams) THEN sel
    ELSE IF streams[k].next = << >> THEN SelectTerm(streams, k + 1, sel)
    ELSE LET entry == streams[k].next[1]
         IN  IF entry.term = << >>
             THEN [term |-> << entry.term >>, nbytes |-> entry.nbytes, df |-> entry.df]
             ELSE IF sel.term = << >> \/ LexLess(entry.term, sel.term[1])
             THEN SelectTerm(streams, k + 1,
                             [term |-> << entry.term >>, nbytes |-> entry.nbytes,
                              df |-> entry.df])
             ELSE IF entry.term = sel.term[1]
             THEN SelectTerm(streams, k + 1,
                             [sel EXCEPT !.nbytes = Sat(@ + entry.nbytes),
                                         !.df = Sat(@ + entry.df)])
             ELSE SelectTerm(streams, k + 1, sel)

\* The loop that moves the entry of every stream standing at term.  mv is
\* the result of move_entry_to on stream k.
RECURSIVE MoveEntries(_, _, _, _, _)
\* a move loop that counts a reader out whenever it has moved an entry
MoveEntryOfCounted(streams, k, term, count, mv) ==
    IF mv.res # "ok"
    THEN [res |-> mv.res, streams |-> [streams EXCEPT ![k] = mv.r], out |-> mv.out,
          count |-> count]
    ELSE IF term = << >>
    THEN [res |-> "ok", streams |-> [streams EXCEPT ![k] = mv.r], out |-> mv.out,
          count |-> IF count > 0 THEN count - 1 ELSE 0]
    ELSE MoveEntries([streams EXCEPT ![k] = mv.r], k + 1, term, mv.out,
                     IF count > 0 THEN count - 1 ELSE 0)

MoveEntryOf(streams, k, term, count, mv) ==
    IF mv.res # "ok"
    THEN [res |-> mv.res, streams |-> [streams EXCEPT ![k] = mv.r], out |-> mv.out,
          count |-> count]
    ELSE IF mv.r.next = << >> /\ count = 0
    THEN [res |-> "panic", streams |-> [streams EXCEPT ![k] = mv.r], out |-> mv.out,
          count |-> count]
    ELSE IF term = << >>
    THEN [res |-> "ok", streams |-> [streams EXCEPT ![k] = mv.r], out |-> mv.out,
          count |-> IF mv.r.next = << >> THEN count - 1 ELSE count]
    ELSE MoveEntries([streams EXCEPT ![k] = mv.r], k + 1, term, mv.out,
                     IF mv.r.next = << >> THEN count - 1 ELSE count)

MoveEntries(streams, k, term, out, count) ==
    IF k > Len(streams)
    THEN [res |-> "ok", streams |-> streams, out |-> out, count |-> count]
    ELSE IF ~is_at(streams[k], term)
    THEN MoveEntries(streams, k + 1, term, out, count)
    ELSE MoveEntryOf(streams, k, term, count, move_entry_to(streams[k], out))

\* The while loop of merge_streams.
RECURSIVE MergeLoop(_, _, _, _)
MergeLoopMoved(sel, point, mv) ==
    IF mv.res # "ok"
    THEN [res |-> mv.res, output |-> mv.out, streams |-> mv.streams]
    ELSE MergeLoop(mv.streams,
                   write_contents_entry(mv.out, sel.term[1], sel.df, point, sel.nbytes),
                   Sat(point + sel.nbytes), mv.count)

MergeLoopSelected(streams, output, point, count, sel) ==
    IF sel.term = << >>
    THEN [res |-> "panic", output |-> output, streams |-> streams]
    ELSE MergeLoopMoved(sel, point,
                        MoveEntries(streams, 1, sel.term[1], output, count))

MergeLoop(streams, output, point, count) ==
    IF count = 0 THEN [res |-> "ok", output |-> output, streams |-> streams]
    ELSE MergeLoopSelected(streams, output, point, count,
             SelectTerm(streams, 1, [term |-> << >>, nbytes |-> 0, df |-> 0]))

\* the number of leading files that open_and_delete opens before the first error
RECURSIVE OpenedPrefix(_, _, _)
OpenedPrefix(fs, files, k) ==
    IF k > Len(files) THEN Len(files)
    ELSE IF files[k] \notin DOMAIN fs THEN k - 1
    ELSE IF open_and_delete(fs[files[k]]).res # "ok" THEN k - 1
    ELSE OpenedPrefix(fs, files, k + 1)

\* The file handles open while merge_streams runs: the output file passed in
\* by the caller, and for every reader that open_and_delete returned the two
\* handles it keeps (terms_docs from File::open at read.rs:71, entries from
\* the second File::open at read.rs:81).
FileHandles(nopen) == 2 * nopen + 1

\* The handles an open_and_delete that fails holds at the moment it fails:
\* none when the first File::open fails, one when the header cannot be read,
\* two when the seek or the first read_entry fails.
FailedOpenHandles(fs, file) ==
    IF file \notin DOMAIN fs THEN 0
    ELSE IF Len(fs[file]) < 8 THEN 1
    ELSE 2

MergeResult(files, ml) ==
    [res |-> ml.res, deleted |-> {files[k] : k \in 1..Len(files)}, output |-> ml.output,
     out_bytes |-> WriterDropped(ml.output), ninputs |-> Len(files),
     handles |-> FileHandles(Len(files)), files |-> files]

MergeOpened(files, streams) ==
    MergeResult(files,
        MergeLoop(streams, IndexFileWriterNew, 0,
                  Cardinality({k \in 1..Len(streams) : streams[k].next # << >>})))

MergeStreamsOpen(fs, files, nopen) ==
    IF nopen < Len(files)
    THEN [res |-> "err", deleted |-> {files[k] : k \in 1..nopen},
          output |-> IndexFileWriterNew, out_bytes |-> << >>, ninputs |-> Len(files),
          handles |-> FileHandles(nopen) + FailedOpenHandles(fs, files[nopen + 1]),
          files |-> files]
    ELSE MergeOpened(files, [k \in 1..Len(files) |-> open_and_delete(fs[files[k]])])

\* merge_streams(files, out) in the directory fs: its result, the input files
\* it has unlinked, the writer as it is when the function returns and the bytes
\* that are in the output file once `output` is dropped.
merge_streams(fs, files) == MergeStreamsOpen(fs, files, OpenedPrefix(fs, files, 1))

(***************************************************************************)
(* merge.rs: FileMerge.  A FileMerge is [stacks, n]: its stacks of file    *)
(* names and the counter of its TmpDir.  fs is the directory: a function   *)
(* from the numbers of the existing temporary files to their bytes.        *)
(* io_fail: the environment fails the first file creation (or rename) of   *)
(* the call with an I/O error.                                             *)
(***************************************************************************)
\* FileMerge::new
FileMergeNew == [stacks |-> << >>, n |-> 1]

Remove(fs, names) == [f \in DOMAIN fs \ names |-> fs[f]]

\* the loop of FileMerge::add_file, from `level` on (levels count from 0)
RECURSIVE AddFileLoop(_, _, _, _, _)
AddFileRest(ms, rest) == [rest EXCEPT !.merges = << ms >> \o @]

\* the record of a merge_streams call in the history `merges`, with the name
\* of the file behind its `out`
MergeInto(ms, filename) == ms @@ [out |-> filename]

\* after merge_streams(to_merge, out): c is the file created for the output
AddFileMerged(stacks, fs, level, c, ms) ==
    IF ms.res # "ok"
    THEN [res |-> ms.res, merge |-> [stacks |-> stacks, n |-> c.n],
          fs |-> Put(Remove(fs, ms.deleted), c.filename, ms.out_bytes),
          merges |-> << MergeInto(ms, c.filename) >>]
    ELSE AddFileRest(MergeInto(ms, c.filename),
             AddFileLoop([stacks |-> stacks, n |-> c.n],
                         Put(Remove(fs, ms.deleted), c.filename, ms.out_bytes),
                         c.filename, level + 1, FALSE))

\* the stack at `level` is full: self.tmp_dir.create()?, then the merge
AddFileFull(stacks, fs, level, io_fail, c) ==
    IF io_fail \/ ~c.ok
    THEN [res |-> "err", merge |-> [stacks |-> stacks, n |-> c.n], fs |-> fs,
          merges |-> << >>]
    ELSE AddFileMerged([stacks EXCEPT ![level + 1] = << >>], fs, level, c,
                       merge_streams(fs, stacks[level + 1]))

\* an add_file that takes a stack for full one file early
AddFilePushedEarly(m, stacks, fs, level, io_fail) ==
    IF Len(stacks[level + 1]) < NSTREAMS - 1
    THEN [res |-> "ok", merge |-> [m EXCEPT !.stacks = stacks], fs |-> fs,
          merges |-> << >>]
    ELSE AddFileFull(stacks, fs, level, io_fail, TmpDirCreate(m.n, DOMAIN fs))

\* after self.stacks[level].push(file)
AddFilePushed(m, stacks, fs, level, io_fail) ==
    IF Len(stacks[level + 1]) < NSTREAMS
    THEN [res |-> "ok", merge |-> [m EXCEPT !.stacks = stacks], fs |-> fs,
          merges |-> << >>]
    ELSE AddFileFull(stacks, fs, level, io_fail, TmpDirCreate(m.n, DOMAIN fs))

AddFileLoop(m, fs, file, level, io_fail) ==
    AddFilePushed(m,
        [(IF level = Len(m.stacks) THEN Append(m.stacks, << >>) ELSE m.stacks)
            EXCEPT ![level + 1] = Append(@, file)],
        fs, level, io_fail)

\* FileMerge::add_file
add_file(m, fs, file, io_fail) == AddFileLoop(m, fs, file, 0, io_fail)

MergeReversedMerged(fs, c, ms) ==
    [res |-> ms.res,
     filenames |-> IF ms.res = "ok" THEN << c.filename >> ELSE << >>,
     n |-> c.n,
     fs |-> Put(Remove(fs, ms.deleted), c.filename, ms.out_bytes),
     merges |-> << MergeInto(ms, c.filename) >>]

MergeReversedCreated(reversed, fs, io_fail, c) ==
    IF io_fail \/ ~c.ok
    THEN [res |-> "err", filenames |-> reversed, n |-> c.n, fs |-> fs,
          merges |-> << >>]
    ELSE MergeReversedMerged(fs, c, merge_streams(fs, reversed))

\* merge_reversed(filenames, tmp_dir)
merge_reversed(filenames, n, fs, io_fail) ==
    MergeReversedCreated(Reverse(filenames), fs, io_fail, TmpDirCreate(n, DOMAIN fs))

\* FileMerge::finish from the assertion on: tmp is the working list, io_fail
\* the failure of the rename.
FinishRename(tmp, fs, io_fail, merges) ==
    IF Len(tmp) # 1
    THEN [res |-> "panic", fs |-> fs, index_bat |-> << >>, merges |-> merges]
    ELSE IF io_fail \/ tmp[1] \notin DOMAIN fs
    THEN [res |-> "err", fs |-> fs, index_bat |-> << >>, merges |-> merges]
    ELSE [res |-> "ok", fs |-> Remove(fs, {tmp[1]}), index_bat |-> << fs[tmp[1]] >>,
          merges |-> merges]

\* FileMerge::finish after a merge_reversed, mr, of the whole working list
FinishMerged(merges, mr) ==
    IF mr.res # "ok"
    THEN [res |-> mr.res, fs |-> mr.fs, index_bat |-> << >>,
          merges |-> merges \o mr.merges]
    ELSE FinishRename(mr.filenames, mr.fs, FALSE, merges \o mr.merges)

\* the nested for loops of FileMerge::finish over the files still to push,
\* followed by the rest of finish
RECURSIVE FinishLoop(_, _, _, _, _, _)
FinishLoopMerged(files, merges, mr) ==
    IF mr.res # "ok"
    THEN [res |-> mr.res, fs |-> mr.fs, index_bat |-> << >>,
          merges |-> merges \o mr.merges]
    ELSE FinishLoop(files, mr.filenames, mr.n, mr.fs, FALSE, merges \o mr.merges)

\* a finish that merges the working list even when it holds a single file
FinishLoopAlways(files, tmp, n, fs, io_fail, merges) ==
    IF files = << >>
    THEN IF Len(tmp) > 0
         THEN FinishMerged(merges, merge_reversed(tmp, n, fs, io_fail))
         ELSE FinishRename(tmp, fs, io_fail, merges)
    ELSE IF Len(tmp) + 1 = NSTREAMS
    THEN FinishLoopMerged(Tail(files), merges,
                          merge_reversed(Append(tmp, Head(files)), n, fs, io_fail))
    ELSE FinishLoop(Tail(files), Append(tmp, Head(files)), n, fs, io_fail, merges)

FinishLoop(files, tmp, n, fs, io_fail, merges) ==
    IF files = << >>
    THEN IF Len(tmp) > 1
         THEN FinishMerged(merges, merge_reversed(tmp, n, fs, io_fail))
         ELSE FinishRename(tmp, fs, io_fail, merges)
    ELSE IF Len(tmp) + 1 = NSTREAMS
    THEN FinishLoopMerged(Tail(files), merges,
                          merge_reversed(Append(tmp, Head(files)), n, fs, io_fail))
    ELSE FinishLoop(Tail(files), Append(tmp, Head(files)), n, fs, io_fail, merges)

\* the order in which finish pushes the files of the stacks onto tmp
FinishOrder(stacks) == Concat([k \in 1..Len(stacks) |-> Reverse(stacks[k])])

\* FileMerge::finish: its result ("ok", "err", or "panic" for the failed
\* assertion), the directory afterwards and index_bat, << >> when the final
\* file was not renamed into place and << bytes >> when it was.
finish(m, fs, io_fail) ==
    FinishLoop(FinishOrder(m.stacks), << >>, m.n, fs, io_fail, << >>)

(***************************************************************************)
(* index.rs: InMemoryIndex::from_index_file and InMemoryIndex::search      *)
(***************************************************************************)
\* The loops that split the data of one term entry into hits.  st is
\* [hits, hit, has_hit, i, wc, underflow]: wc is the change of word_count,
\* underflow records that a subtraction on word_count or on i went below 0.
RECURSIVE ParseHits(_, _, _)
ParseHits(data, pos, st) ==
    IF pos + 4 > Len(data)
    THEN IF Len(st.hit) > 0
         THEN [st EXCEPT !.hits = Append(@, st.hit), !.wc = @ - 2,
                         !.underflow = @ \/ st.wc < 2]
         ELSE st
    ELSE LET item == Slice(data, pos, 4)
             st1 == IF item = HITS_SEPERATOR /\ st.has_hit
                    THEN [st EXCEPT !.hits = Append(@, st.hit), !.i = @ - 1,
                                    !.wc = @ - 2, !.hit = << >>,
                                    !.underflow = @ \/ st.wc < 2 \/ st.i < 1]
                    ELSE st
         IN  ParseHits(data, pos + 4,
                       [st1 EXCEPT !.has_hit = TRUE, !.hit = @ \o item, !.wc = @ + 1])

\* The while loop of from_index_file over the table of entries.
RECURSIVE LoadEntries(_, _)
\* a document entry: the record at entry.offset
LoadDocument(reader1, index, b, offset) ==
    IF offset + 12 > Len(b) THEN [index EXCEPT !.res = "err"]
    ELSE IF U64TopBit(b, offset + 4) THEN [index EXCEPT !.res = "panic"]
    ELSE IF offset + 12 + U64At(b, offset + 4) > Len(b)
    THEN [index EXCEPT !.res = "err"]
    ELSE LoadEntries(reader1,
            [index EXCEPT !.docs =
                Put(@, U32At(b, offset),
                    [id |-> U32At(b, offset),
                     path |-> Slice(b, offset + 12, U64At(b, offset + 4))])])

\* a term entry whose data was split into hits: ph is the state of the split
LoadTermParsed(reader1, index, term, ph) ==
    LoadEntries(reader1,
        [index EXCEPT !.map = Put(@, term, ph.hits),
                      !.word_count = ph.wc,
                      !.underflow = ph.underflow])

LoadTerm(reader1, index, b, entry) ==
    IF entry.nbytes_top THEN [index EXCEPT !.res = "panic"]
    ELSE IF entry.offset + entry.nbytes > Len(b) THEN [index EXCEPT !.res = "err"]
    ELSE LoadTermParsed(reader1, index, entry.term,
            IF entry.df > 0
            THEN ParseHits(Slice(b, entry.offset, entry.nbytes), 0,
                           [hits |-> << >>, hit |-> << >>, has_hit |-> FALSE,
                            i |-> entry.df, wc |-> index.word_count,
                            underflow |-> index.underflow])
            ELSE [hits |-> << >>, wc |-> index.word_count,
                  underflow |-> index.underflow])

LoadEntry(reader1, index, b, entry) ==
    IF entry.offset_top THEN [index EXCEPT !.res = "err"]
    ELSE IF entry.term = << >> /\ entry.df = 0
    THEN LoadDocument(reader1, index, b, entry.offset)
    ELSE LoadTerm(reader1, index, b, entry)

LoadEntries(reader, index) ==
    IF reader.next = << >> THEN index
    ELSE LoadEntry(iter_next_entry(reader), index, reader.bytes, reader.next[1])

\* the end of from_index_file: index.word_count /= 2
\* the end of from_index_file without `index.word_count /= 2`
LoadEndUndivided(index, overflow_checks) ==
    IF index.res # "ok" THEN index
    ELSE IF index.underflow /\ overflow_checks THEN [index EXCEPT !.res = "panic"]
    ELSE index

LoadEnd(index, overflow_checks) ==
    IF index.res # "ok" THEN index
    ELSE IF index.underflow /\ overflow_checks THEN [index EXCEPT !.res = "panic"]
    ELSE [index EXCEPT !.word_count = IF @ < 0 THEN Huge ELSE @ \div 2]

LoadOpened(reader, overflow_checks) ==
    IF reader.res # "ok"
    THEN [res |-> "err", word_count |-> 0, map |-> EmptyMap, docs |-> EmptyMap,
          underflow |-> FALSE]
    ELSE LoadEnd(LoadEntries(reader,
                    [res |-> "ok", word_count |-> 0, map |-> EmptyMap,
                     docs |-> EmptyMap, underflow |-> FALSE]),
                 overflow_checks)

\* InMemoryIndex::from_index_file on a file with bytes b.  overflow_checks:
\* the build panics on integer overflow (debug) instead of wrapping (release).
\* res is "ok", "err" or "panic".
from_index_file(b, overflow_checks) == LoadOpened(open_and_delete(b), overflow_checks)

\* the (start_pos, end_pos) pairs search reads from a hit after its 8-byte head
RECURSIVE ReadPoss(_, _)
ReadPoss(hit, pos) ==
    IF pos + 8 > Len(hit) THEN << >>
    ELSE << [start_pos |-> U32At(hit, pos), end_pos |-> U32At(hit, pos + 4)] >>
         \o ReadPoss(hit, pos + 8)

\* The for loop of InMemoryIndex::search over the hits of the term: the
\* documents found with their positions, in the order they are highlighted.
RECURSIVE SearchHits(_, _)
SearchHit(index, hit, document_id, rest) ==
    IF document_id \notin DOMAIN index.docs THEN rest
    ELSE [rest EXCEPT !.found =
            << [document_id |-> document_id,
                path |-> index.docs[document_id].path,
                poss |-> ReadPoss(hit, 8)] >> \o @]

SearchHits(index, hits) ==
    IF hits = << >> THEN [res |-> "ok", found |-> << >>]
    ELSE IF Len(Head(hits)) < 8 THEN [res |-> "panic", found |-> << >>]
    ELSE SearchHit(index, Head(hits), U32At(Head(hits), 4),
                   SearchHits(index, Tail(hits)))

\* InMemoryIndex::search(term), up to the highlighting of the documents found
search(index, term) ==
    IF term \notin DOMAIN index.map THEN [res |-> "ok", found |-> << >>]
    ELSE SearchHits(index, index.map[term])

(***************************************************************************)
(* index.rs: highlight_text, highlight_file                                *)
(***************************************************************************)
\* "\x1b[31m" and "\x1b[0m", 5 and 4 bytes
MarkerOpen == << 27, 91, 51, 49, 109 >>

MarkerClose == << 27, 91, 48, 109 >>

\* str::is_char_boundary: the start, the end, or a byte that is no UTF-8
\* continuation byte
is_char_boundary(text, i) ==
    \/ i = 0
    \/ i = Len(text)
    \/ i < Len(text) /\ text[i + 1] \notin 128..191

\* highlight_text(text, start_pos, end_pos) on the bytes of a str.  res is
\* "ok" or "panic": slicing a str off a character boundary panics.
highlight_text(text, start_pos, end_pos) ==
    IF start_pos > Len(text) \/ end_pos >= Len(text) \/ start_pos > end_pos
    THEN [res |-> "ok", text |-> text]
    ELSE IF ~is_char_boundary(text, start_pos) \/ ~is_char_boundary(text, end_pos + 1)
    THEN [res |-> "panic", text |-> text]
    ELSE [res |-> "ok",
          text |-> Slice(text, 0, start_pos)
                   \o MarkerOpen
                   \o Slice(text, start_pos, end_pos + 1 - start_pos)
                   \o MarkerClose
                   \o Slice(text, end_pos + 1, Len(text) - (end_pos + 1))]

\* poss.sort_by_key(|pos| pos.start_pos): a stable sort
RECURSIVE sort_by_key(_)
sort_by_key(poss) ==
    IF poss = << >> THEN << >>
    ELSE LET last == poss[Len(poss)]
             sorted == sort_by_key(SubSeq(poss, 1, Len(poss) - 1))
             n == Cardinality({k \in DOMAIN sorted :
                                  sorted[k].start_pos <= last.start_pos})
         IN  SubSeq(sorted, 1, n) \o << last >> \o SubSeq(sorted, n + 1, Len(sorted))

(***************************************************************************)
(* The inputs of a build.                                                  *)
(***************************************************************************)
\* the path of the document at position i of the caller's list
PathOf(i) == IF i % 2 = 1 THEN << 100, 48 + i >> ELSE << 48 + i >>

\* texts, as sequences of characters: "", "a", "a b", "A a", "b" and "\u{e9}"
\* (e with acute accent, two bytes in UTF-8)
Texts == { << >>, << 97 >>, << 97, 32, 98 >>, << 65, 32, 97 >>, << 98 >>, << 233 >> }

\* texts of the pipelined builds: "", "a", "b a"
PipeTexts == { << >>, << 97 >>, << 98, 32, 97 >> }

\* A single-threaded build indexes n documents whose texts repeat a pattern
\* of one or two texts.
Patterns == {<< t >> : t \in Texts} \cup {<< t, u >> : t \in Texts, u \in Texts}

Corpus(pattern, n) ==
    [i \in 1..n |-> [path |-> PathOf(i), text |-> pattern[((i - 1) % Len(pattern)) + 1]]]

RECURSIVE SeqsUpTo(_, _)
SeqsUpTo(S, n) ==
    IF n = 0 THEN {<< >>}
    ELSE LET shorter == SeqsUpTo(S, n - 1)
         IN  shorter \cup {Append(q, x) : q \in {r \in shorter : Len(r) = n - 1}, x \in S}

PipeCorpora ==
    {[i \in 1..Len(ts) |-> [path |-> PathOf(i), text |-> ts[i]]] :
        ts \in SeqsUpTo(PipeTexts, MaxPipeDocs)}

LongCorpora == {Corpus(<< t >>, MaxDocs) : t \in Texts}

(***************************************************************************)
(* State.                                                                  *)
(***************************************************************************)
VARIABLES
    documents,   \* the caller's list of documents: [path, text]
    fs,          \* the temporary files of the output directory: number -> bytes
    index_bat,   \* the final file: << >> if absent, << bytes >> if present
    assigned,    \* history: the document ids assigned, [pos, id], in order
    merges,      \* history: the merge_streams calls made so far
    single,      \* run_single_threaded: its locals and its position
    chan,        \* run_pipeline: the four channels
    reader,      \* the file reader thread
    indexer,     \* the file indexing thread
    merger,      \* the in-memory merge thread
    writer,      \* the index writer thread
    driver,      \* the thread of run_pipeline
    arrived,     \* history: the document ids of the indexes received by the
                 \* in-memory merge thread and by the index writer thread
    searcher     \* a reader of one index file: the index written, the file
                 \* as written, the damage done to it and what was read

vars == << documents, fs, index_bat, assigned, merges, single, chan, reader,
           indexer, merger, writer, driver, arrived, searcher >>

pipeVars == << chan, reader, indexer, merger, writer, driver, arrived >>

Idle == [pc |-> "idle"]

(***************************************************************************)
(* bin/create.rs: run_single_threaded                                      *)
(***************************************************************************)
SingleStart ==
    [pc |-> "loop", i |-> 0, accumulated_index |-> NewIndex, merge |-> FileMergeNew,
     tmp_n |-> 1, file |-> 0, last |-> FALSE, result |-> "none", exit |-> "none",
     added |-> 0]

InitSingle ==
    /\ \E pattern \in Patterns, n \in 0..MaxDocs : documents = Corpus(pattern, n)
    /\ fs = EmptyMap
    /\ index_bat = << >>
    /\ assigned = << >>
    /\ merges = << >>
    /\ single = SingleStart
    /\ chan = Idle /\ reader = Idle /\ indexer = Idle /\ merger = Idle
    /\ writer = Idle /\ driver = Idle /\ arrived = Idle
    /\ searcher = Idle

\* One pass of the for loop up to the is_large test: the document is read
\* (or File::open / read_to_string fails), indexed with id doc_id + 1 and
\* merged into accumulated_index.
SingleMerged(acc) ==
    /\ single' = [single EXCEPT !.i = @ + 1,
                                !.accumulated_index = acc,
                                !.pc = IF is_large(acc) THEN "write" ELSE "loop"]
    /\ assigned' = Append(assigned, [pos |-> single.i + 1, id |-> single.i + 1])

SingleRead ==
    /\ single.pc = "loop"
    /\ single.i < Len(documents)
    /\ \E read_ok \in BOOLEAN :
          IF ~read_ok
          THEN /\ single' = [single EXCEPT !.pc = "done", !.result = "err",
                                            !.exit = "read"]
               /\ UNCHANGED assigned
          ELSE SingleMerged(
                  IndexMerge(single.accumulated_index,
                             from_single_document(single.i + 1,
                                                  documents[single.i + 1].path,
                                                  documents[single.i + 1].text)))
    /\ UNCHANGED << documents, fs, index_bat, merges, pipeVars, searcher >>

\* The for loop is over: the last data set is saved unless it is empty.
SingleLoopEnd ==
    /\ single.pc = "loop"
    /\ single.i = Len(documents)
    /\ single' = [single EXCEPT
                     !.last = TRUE,
                     !.pc = IF ~is_empty(single.accumulated_index)
                            THEN "write" ELSE "finish"]
    /\ UNCHANGED << documents, fs, index_bat, assigned, merges, pipeVars, searcher >>

\* write_index_to_tmp_file(accumulated_index, &mut tmp_dir)?
SingleCreated(io_fail, order, c) ==
    IF io_fail \/ ~c.ok
    THEN /\ single' = [single EXCEPT !.pc = "done", !.result = "err", !.tmp_n = c.n,
                                      !.exit = "write_index_to_tmp_file"]
         /\ UNCHANGED fs
    ELSE /\ fs' = Put(fs, c.filename,
                      write_index_to_tmp_file(single.accumulated_index, order))
         /\ single' = [single EXCEPT !.pc = "add", !.tmp_n = c.n, !.file = c.filename]

SingleWrite ==
    /\ single.pc = "write"
    /\ \E io_fail \in BOOLEAN, order \in DocOrders(single.accumulated_index.docs) :
          SingleCreated(io_fail, order, TmpDirCreate(single.tmp_n, DOMAIN fs))
    /\ UNCHANGED << documents, index_bat, assigned, merges, pipeVars, searcher >>

\* merge.add_file(file)?; accumulated_index = InMemoryIndex::new()
SingleAdded(a) ==
    /\ fs' = a.fs
    /\ merges' = merges \o a.merges
    /\ single' =
          IF a.res # "ok"
          THEN [single EXCEPT !.pc = "done", !.result = a.res, !.merge = a.merge,
                              !.exit = "add_file"]
          ELSE [single EXCEPT !.merge = a.merge,
                              !.added = @ + 1,
                              !.accumulated_index = NewIndex,
                              !.pc = IF single.last THEN "finish" ELSE "loop"]

SingleAddFile ==
    /\ single.pc = "add"
    /\ \E io_fail \in BOOLEAN :
          SingleAdded(add_file(single.merge, fs, single.file, io_fail))
    /\ UNCHANGED << documents, index_bat, assigned, pipeVars, searcher >>

\* merge.finish()
SingleFinished(f) ==
    /\ fs' = f.fs
    /\ index_bat' = f.index_bat
    /\ merges' = merges \o f.merges
    /\ single' = [single EXCEPT !.pc = "done", !.result = f.res, !.exit = "finish"]

SingleFinish ==
    /\ single.pc = "finish"
    /\ \E io_fail \in BOOLEAN : SingleFinished(finish(single.merge, fs, io_fail))
    /\ UNCHANGED << documents, assigned, pipeVars, searcher >>

NextSingle ==
    \/ SingleRead
    \/ SingleLoopEnd
    \/ SingleWrite
    \/ SingleAddFile
    \/ SingleFinish

SpecSingle == InitSingle /\ [][NextSingle]_vars

(***************************************************************************)
(* bin/create.rs: run_pipeline.  A channel is [q, tx, rx]: the messages in *)
(* flight, and whether its Sender and its Receiver are still alive.        *)
(***************************************************************************)
\* std::sync::mpsc::channel()
channel == [q |-> << >>, tx |-> TRUE, rx |-> TRUE]

\* a channel that would hand out the newest message first
recv_newest(q) == [msg |-> q[Len(q)], rest |-> SubSeq(q, 1, Len(q) - 1)]

\* Receiver::recv on a channel that holds messages: the oldest message
recv(q) == [msg |-> Head(q), rest |-> Tail(q)]

\* run_pipeline has launched its stages
PipelineStart ==
    /\ fs = EmptyMap
    /\ index_bat = << >>
    /\ assigned = << >>
    /\ merges = << >>
    /\ single = Idle
    /\ chan = [texts |-> channel, pints |-> channel, gallons |-> channel,
               files |-> channel]
    /\ reader = [pc |-> "run", i |-> 0, result |-> "none"]
    /\ indexer = [pc |-> "run", doc_id |-> 0]
    /\ merger = [pc |-> "run", accumulated_index |-> NewIndex]
    /\ writer = [pc |-> "run", tmp_n |-> 1, result |-> "none"]
    /\ driver = [pc |-> "merge", merge |-> FileMergeNew, merge_result |-> "none",
                 result |-> "none"]
    /\ arrived = [merger |-> << >>, writer |-> << >>]
    /\ searcher = Idle

InitPipeline == documents \in PipeCorpora /\ PipelineStart

\* a pipelined build of MaxDocs documents that all have the same text
InitLong == documents \in LongCorpora /\ PipelineStart

\* start_file_reader_thread: one pass of `for filename in documents`
ReaderRead ==
    /\ reader.pc = "run"
    /\ reader.i < Len(documents)
    /\ \E read_ok \in BOOLEAN :
          IF ~read_ok
          THEN /\ reader' = [reader EXCEPT !.pc = "done", !.result = "err"]
               /\ chan' = [chan EXCEPT !.texts.tx = FALSE]
          ELSE IF ~chan.texts.rx
          THEN /\ reader' = [reader EXCEPT !.pc = "done", !.result = "ok"]
               /\ chan' = [chan EXCEPT !.texts.tx = FALSE]
          ELSE /\ reader' = [reader EXCEPT !.i = @ + 1]
               /\ chan' = [chan EXCEPT !.texts.q =
                              Append(@, [pos |-> reader.i + 1,
                                         path |-> documents[reader.i + 1].path,
                                         text |-> documents[reader.i + 1].text])]
    /\ UNCHANGED << documents, fs, index_bat, assigned, merges, single, searcher, indexer,
                    merger, writer, driver, arrived >>

\* start_file_reader_thread: the list is exhausted, the thread returns Ok(())
ReaderExit ==
    /\ reader.pc = "run"
    /\ reader.i = Len(documents)
    /\ reader' = [reader EXCEPT !.pc = "done", !.result = "ok"]
    /\ chan' = [chan EXCEPT !.texts.tx = FALSE]
    /\ UNCHANGED << documents, fs, index_bat, assigned, merges, single, searcher, indexer,
                    merger, writer, driver, arrived >>

\* start_file_indexing_thread: one pass of the loop over docs.into_iter().enumerate()
IndexerReceived(r) ==
    /\ assigned' = Append(assigned, [pos |-> r.msg.pos, id |-> indexer.doc_id])
    /\ IF ~chan.pints.rx
       THEN /\ indexer' = [indexer EXCEPT !.pc = "done"]
            /\ chan' = [chan EXCEPT !.texts.q = r.rest, !.texts.rx = FALSE,
                                    !.pints.tx = FALSE]
       ELSE /\ indexer' = [indexer EXCEPT !.doc_id = @ + 1]
            /\ chan' = [chan EXCEPT
                          !.texts.q = r.rest,
                          !.pints.q = Append(@, from_single_document(indexer.doc_id,
                                                                     r.msg.path,
                                                                     r.msg.text))]

IndexerStep ==
    /\ indexer.pc = "run"
    /\ chan.texts.q # << >>
    /\ IndexerReceived(recv(chan.texts.q))
    /\ UNCHANGED << documents, fs, index_bat, merges, single, searcher, reader, merger,
                    writer, driver, arrived >>

\* start_file_indexing_thread: the channel is empty and disconnected
IndexerExit ==
    /\ indexer.pc = "run"
    /\ chan.texts.q = << >> /\ ~chan.texts.tx
    /\ indexer' = [indexer EXCEPT !.pc = "done"]
    /\ chan' = [chan EXCEPT !.texts.rx = FALSE, !.pints.tx = FALSE]
    /\ UNCHANGED << documents, fs, index_bat, assigned, merges, single, searcher, reader,
                    merger, writer, driver, arrived >>

\* start_in_memory_merge_thread: one pass of `for i in indexes`
MergerMerged(rest, acc) ==
    IF ~is_large(acc)
    THEN /\ merger' = [merger EXCEPT !.accumulated_index = acc]
         /\ chan' = [chan EXCEPT !.pints.q = rest]
    ELSE IF ~chan.gallons.rx
    THEN /\ merger' = [merger EXCEPT !.pc = "done", !.accumulated_index = acc]
         /\ chan' = [chan EXCEPT !.pints.q = rest, !.pints.rx = FALSE,
                                 !.gallons.tx = FALSE]
    ELSE /\ merger' = [merger EXCEPT !.accumulated_index = NewIndex]
         /\ chan' = [chan EXCEPT !.pints.q = rest, !.gallons.q = Append(@, acc)]

MergerReceived(r) ==
    /\ arrived' = [arrived EXCEPT !.merger = @ \o Ascending(DOMAIN r.msg.docs)]
    /\ MergerMerged(r.rest, IndexMerge(merger.accumulated_index, r.msg))

MergerStep ==
    /\ merger.pc = "run"
    /\ chan.pints.q # << >>
    /\ MergerReceived(recv(chan.pints.q))
    /\ UNCHANGED << documents, fs, index_bat, assigned, merges, single, searcher, reader,
                    indexer, writer, driver >>

\* start_in_memory_merge_thread: the loop is over, the rest is sent unless empty
MergerExit ==
    /\ merger.pc = "run"
    /\ chan.pints.q = << >> /\ ~chan.pints.tx
    /\ merger' = [merger EXCEPT !.pc = "done"]
    /\ chan' = [chan EXCEPT
                  !.pints.rx = FALSE,
                  !.gallons.tx = FALSE,
                  !.gallons.q = IF ~is_empty(merger.accumulated_index) /\ chan.gallons.rx
                                THEN Append(@, merger.accumulated_index) ELSE @]
    /\ UNCHANGED << documents, fs, index_bat, assigned, merges, single, searcher, reader,
                    indexer, writer, driver, arrived >>

\* start_index_writer_thread: one pass of `for i in big_indexes`
WriterCreated(r, io_fail, order, c) ==
    IF io_fail \/ ~c.ok
    THEN /\ writer' = [writer EXCEPT !.pc = "done", !.result = "err", !.tmp_n = c.n]
         /\ chan' = [chan EXCEPT !.gallons.q = r.rest, !.gallons.rx = FALSE,
                                 !.files.tx = FALSE]
         /\ UNCHANGED fs
    ELSE /\ fs' = Put(fs, c.filename, write_index_to_tmp_file(r.msg, order))
         /\ IF ~chan.files.rx
            THEN /\ writer' = [writer EXCEPT !.pc = "done", !.result = "ok",
                                             !.tmp_n = c.n]
                 /\ chan' = [chan EXCEPT !.gallons.q = r.rest, !.gallons.rx = FALSE,
                                         !.files.tx = FALSE]
            ELSE /\ writer' = [writer EXCEPT !.tmp_n = c.n]
                 /\ chan' = [chan EXCEPT !.gallons.q = r.rest,
                                         !.files.q = Append(@, c.filename)]

WriterReceived(r) ==
    /\ arrived' = [arrived EXCEPT !.writer = Append(@, Ascending(DOMAIN r.msg.docs))]
    /\ \E io_fail \in BOOLEAN, order \in DocOrders(r.msg.docs) :
          WriterCreated(r, io_fail, order, TmpDirCreate(writer.tmp_n, DOMAIN fs))

WriterStep ==
    /\ writer.pc = "run"
    /\ chan.gallons.q # << >>
    /\ WriterReceived(recv(chan.gallons.q))
    /\ UNCHANGED << documents, index_bat, assigned, merges, single, searcher, reader,
                    indexer, merger, driver >>

\* start_index_writer_thread: the loop is over, the thread returns Ok(())
WriterExit ==
    /\ writer.pc = "run"
    /\ chan.gallons.q = << >> /\ ~chan.gallons.tx
    /\ writer' = [writer EXCEPT !.pc = "done", !.result = "ok"]
    /\ chan' = [chan EXCEPT !.gallons.rx = FALSE, !.files.tx = FALSE]
    /\ UNCHANGED << documents, fs, index_bat, assigned, merges, single, searcher, reader,
                    indexer, merger, driver, arrived >>

\* merge_index_files: one pass of `for file in files`, merge.add_file(file)?
DriverAdded(rest, a) ==
    /\ fs' = a.fs
    /\ merges' = merges \o a.merges
    /\ IF a.res = "ok"
       THEN /\ driver' = [driver EXCEPT !.merge = a.merge]
            /\ chan' = [chan EXCEPT !.files.q = rest]
       ELSE /\ driver' = [driver EXCEPT
                            !.merge = a.merge,
                            !.merge_result = a.res,
                            !.pc = IF a.res = "panic" THEN "panicked" ELSE "join"]
            /\ chan' = [chan EXCEPT !.files.q = rest, !.files.rx = FALSE]

DriverReceived(r) ==
    \E io_fail \in BOOLEAN : DriverAdded(r.rest, add_file(driver.merge, fs, r.msg, io_fail))

DriverAddFile ==
    /\ driver.pc = "merge"
    /\ chan.files.q # << >>
    /\ DriverReceived(recv(chan.files.q))
    /\ UNCHANGED << documents, index_bat, assigned, single, searcher, reader, indexer,
                    merger, writer, arrived >>

\* merge_index_files: the loop is over, merge.finish()
DriverFinished(f) ==
    /\ fs' = f.fs
    /\ index_bat' = f.index_bat
    /\ merges' = merges \o f.merges
    /\ driver' = [driver EXCEPT
                    !.merge_result = f.res,
                    !.pc = IF f.res = "panic" THEN "panicked" ELSE "join"]
    /\ chan' = [chan EXCEPT !.files.rx = FALSE]

DriverFinish ==
    /\ driver.pc = "merge"
    /\ chan.files.q = << >> /\ ~chan.files.tx
    /\ \E io_fail \in BOOLEAN : DriverFinished(finish(driver.merge, fs, io_fail))
    /\ UNCHANGED << documents, assigned, single, searcher, reader, indexer, merger, writer,
                    arrived >>

\* run_pipeline from h1.join() on: the four joins, then r1?; r4?; result
DriverJoin ==
    /\ driver.pc = "join"
    /\ reader.pc = "done" /\ indexer.pc = "done"
    /\ merger.pc = "done" /\ writer.pc = "done"
    /\ driver' = [driver EXCEPT
                    !.pc = "done",
                    !.result = IF reader.result = "err" THEN "reader_err"
                               ELSE IF writer.result = "err" THEN "writer_err"
                               ELSE IF driver.merge_result = "err" THEN "merge_err"
                               ELSE "ok"]
    /\ UNCHANGED << documents, fs, index_bat, assigned, merges, single, searcher, chan,
                    reader, indexer, merger, writer, arrived >>

Init == InitPipeline

Next ==
    \/ ReaderRead
    \/ ReaderExit
    \/ IndexerStep
    \/ IndexerExit
    \/ MergerStep
    \/ MergerExit
    \/ WriterStep
    \/ WriterExit
    \/ DriverAddFile
    \/ DriverFinish
    \/ DriverJoin

Spec == Init /\ [][Next]_vars

LongSpec == InitLong /\ [][Next]_vars

(***************************************************************************)
(* Writing one index file and reading it back: write_index_to_tmp_file,    *)
(* then either InMemoryIndex::from_index_file, as main of bin/search.rs    *)
(* calls it, or merge_streams on the file, which reads it through          *)
(* move_entry_to.  In between the environment may damage the file.         *)
(***************************************************************************)
LoadCorpora ==
    {[i \in 1..Len(ts) |-> [path |-> PathOf(i), text |-> ts[i]]] :
        ts \in SeqsUpTo(Texts, MaxLoadDocs)}

\* the index run_single_threaded has accumulated after the first k documents
\* when nothing was flushed
RECURSIVE AccumulatedIndex(_, _)
AccumulatedIndex(docs, k) ==
    IF k = 0 THEN NewIndex
    ELSE IndexMerge(AccumulatedIndex(docs, k - 1),
                    from_single_document(k, docs[k].path, docs[k].text))

SearcherStart(index) ==
    [pc |-> "index", index |-> index, written |-> << >>, damage |-> "none",
     cut |-> 0, loaded |-> << >>]

InitSearch ==
    /\ documents \in LoadCorpora
    /\ fs = EmptyMap
    /\ index_bat = << >>
    /\ assigned = << >>
    /\ merges = << >>
    /\ single = Idle
    /\ chan = Idle /\ reader = Idle /\ indexer = Idle /\ merger = Idle
    /\ writer = Idle /\ driver = Idle /\ arrived = Idle
    /\ searcher = SearcherStart(AccumulatedIndex(documents, Len(documents)))

\* write_index_to_tmp_file(index, &mut tmp_dir) with a new TmpDir
SearcherWritten(c, bytes) ==
    /\ fs' = Put(fs, c.filename, bytes)
    /\ searcher' = [searcher EXCEPT !.pc = "file", !.written = bytes]

SearcherWrite ==
    /\ searcher.pc = "index"
    /\ \E order \in DocOrders(searcher.index.docs) :
          SearcherWritten(TmpDirCreate(1, DOMAIN fs),
                          write_index_to_tmp_file(searcher.index, order))
    /\ UNCHANGED << documents, index_bat, assigned, merges, single, pipeVars >>

\* the environment cuts the file off somewhere in its contents table
Truncate ==
    /\ searcher.pc = "file" /\ searcher.damage = "none"
    /\ \E cut \in U64At(fs[1], 0) .. (Len(fs[1]) - 1) :
          /\ fs' = [fs EXCEPT ![1] = SubSeq(@, 1, cut)]
          /\ searcher' = [searcher EXCEPT !.damage = "truncated", !.cut = cut]
    /\ UNCHANGED << documents, index_bat, assigned, merges, single, pipeVars >>

\* the environment overwrites the header with a contents_start beyond the
\* end of the file: the file length plus 1, plus 24, or 10^9
SetHeader ==
    /\ searcher.pc = "file" /\ searcher.damage = "none"
    /\ \E start \in {Len(fs[1]) + 1, Len(fs[1]) + 24, 1000000000} :
          /\ fs' = [fs EXCEPT ![1] = LE64(start) \o SubSeq(@, HEADER_SIZE + 1, Len(@))]
          /\ searcher' = [searcher EXCEPT !.damage = "header", !.cut = start]
    /\ UNCHANGED << documents, index_bat, assigned, merges, single, pipeVars >>

\* bin/search.rs main: InMemoryIndex::from_index_file(index_file), built with
\* or without overflow checks
SearcherLoaded(loaded) ==
    searcher' = [searcher EXCEPT !.pc = "loaded", !.loaded = << loaded >>]

SearcherLoad ==
    /\ searcher.pc = "file"
    /\ \E overflow_checks \in BOOLEAN :
          SearcherLoaded(from_index_file(fs[1], overflow_checks))
    /\ UNCHANGED << documents, fs, index_bat, assigned, merges, single, pipeVars >>

\* merge_streams(vec![file], out): the file is read through move_entry_to
SearcherMerged(ms) ==
    /\ merges' = << ms >>
    /\ fs' = Remove(fs, ms.deleted)
    /\ searcher' = [searcher EXCEPT !.pc = "merged"]

SearcherMerge ==
    /\ searcher.pc = "file"
    /\ SearcherMerged(merge_streams(fs, << 1 >>))
    /\ UNCHANGED << documents, index_bat, assigned, single, pipeVars >>

NextSearch ==
    \/ SearcherWrite
    \/ Truncate
    \/ SetHeader
    \/ SearcherLoad
    \/ SearcherMerge

SpecSearch == InitSearch /\ [][NextSearch]_vars

(***************************************************************************)
(* index.rs: highlight_file on a document file and the positions that      *)
(* InMemoryIndex::search has read from a hit of the index file.            *)
(***************************************************************************)
\* the document files: "a b", "\u{e9}" and "ab cd ef gh i"
HighlightTexts ==
    { << 97, 32, 98 >>, << 233 >>,
      << 97, 98, 32, 99, 100, 32, 101, 102, 32, 103, 104, 32, 105 >> }

\* the positions read from a hit: any u32 pairs, as the index file gives them
HighlightPoss ==
    SeqsUpTo([start_pos : 0..MaxPos, end_pos : 0..MaxPos], MaxSpans)

InitHighlight ==
    /\ documents = << >>
    /\ fs = EmptyMap
    /\ index_bat = << >>
    /\ assigned = << >>
    /\ merges = << >>
    /\ single = Idle
    /\ chan = Idle /\ reader = Idle /\ indexer = Idle /\ merger = Idle
    /\ writer = Idle /\ driver = Idle /\ arrived = Idle
    /\ \E text \in HighlightTexts, poss \in HighlightPoss :
          searcher = [pc |-> "highlight_file", file |-> Utf8Bytes(text),
                      poss |-> poss, origin_text |-> << >>,
                      extra_chars |-> 0, i |-> 0, result |-> "none"]

\* highlight_file: read_to_string(path)?, extra_chars = 0, poss.sort_by_key
HighlightRead ==
    /\ searcher.pc = "highlight_file"
    /\ \E read_ok \in BOOLEAN :
          searcher' = IF read_ok
                      THEN [searcher EXCEPT !.pc = "loop",
                                            !.origin_text = searcher.file,
                                            !.poss = sort_by_key(@)]
                      ELSE [searcher EXCEPT !.pc = "done", !.result = "err"]
    /\ UNCHANGED << documents, fs, index_bat, assigned, merges, single, pipeVars >>

\* highlight_file: one pass of `for pos in poss.iter()`
HighlightLooped(h) ==
    searcher' = IF h.res = "panic"
                THEN [searcher EXCEPT !.pc = "panicked", !.result = "panic"]
                ELSE [searcher EXCEPT !.origin_text = h.text,
                                      !.extra_chars = @ + 9,
                                      !.i = @ + 1]

HighlightLoop ==
    /\ searcher.pc = "loop"
    /\ searcher.i < Len(searcher.poss)
    /\ HighlightLooped(highlight_text(
          searcher.origin_text,
          searcher.poss[searcher.i + 1].start_pos + searcher.extra_chars,
          searcher.poss[searcher.i + 1].end_pos + searcher.extra_chars))
    /\ UNCHANGED << documents, fs, index_bat, assigned, merges, single, pipeVars >>

\* highlight_file: Ok(origin_text)
HighlightReturn ==
    /\ searcher.pc = "loop"
    /\ searcher.i = Len(searcher.poss)
    /\ searcher' = [searcher EXCEPT !.pc = "done", !.result = "ok"]
    /\ UNCHANGED << documents, fs, index_bat, assigned, merges, single, pipeVars >>

NextHighlight ==
    \/ HighlightRead
    \/ HighlightLoop
    \/ HighlightReturn

SpecHighlight == InitHighlight /\ [][NextHighlight]_vars

(***************************************************************************)
(* What a finished build has produced, as its readers see it.              *)
(***************************************************************************)
\* the entries IndexFileReader yields from peek / iter_next_entry until None
RECURSIVE ReadEntries(_)
ReadEntries(r) ==
    IF r.next = << >> THEN << >>
    ELSE << r.next[1] >> \o ReadEntries(iter_next_entry(r))

ReadOpened(r) == IF r.res = "ok" THEN ReadEntries(r) ELSE << >>

\* the contents table of the file with bytes b, read from the position its
\* header gives
ContentsTable(b) == ReadOpened(open_and_delete(b))

\* the test from_index_file makes for a document entry
IsDocEntry(e) == e.term = << >> /\ e.df = 0

\* the tokens from_single_document extracts from the document at position pos
TokensOf(pos) == tokenize(ToLowercase(documents[pos].text))

TermsOf(pos) == {TokensOf(pos)[k].token : k \in DOMAIN TokensOf(pos)}

\* the document ids of the hits of a group, in the order of the group
HitIds(hits) == [k \in DOMAIN hits |-> U32At(hits[k], 4)]

\* run_single_threaded has returned Ok(())
SingleOk == single.pc = "done" /\ single.result = "ok"

\* the final file as the Searcher loads it (search.rs), for both kinds of build
Loaded(overflow_checks) == from_index_file(index_bat[1], overflow_checks)

(***************************************************************************)
(* Properties of the builds.                                               *)
(***************************************************************************)
\* term entries of a contents table, and their order
NonDocEntries(table) == SelectSeq(table, LAMBDA e : ~IsDocEntry(e))

SortedByTerm(table) ==
    \A k \in 1..(Len(table) - 1) : LexLeq(table[k].term, table[k + 1].term)

StrictlyAscending(ids) == \A k \in 1..(Len(ids) - 1) : ids[k] < ids[k + 1]

IsPrefix(p, q) == Len(p) <= Len(q) /\ \A k \in DOMAIN p : p[k] = q[k]

RECURSIVE SumNbytes(_)
SumNbytes(table) ==
    IF table = << >> THEN 0 ELSE Head(table).nbytes + SumNbytes(Tail(table))

\* the ids of the documents whose text contains the term
IdsWith(term) == {assigned[k].id : k \in {j \in DOMAIN assigned : term \in TermsOf(assigned[j].pos)}}

\* search(tok.token) on the loaded index reports the span of tok for document id
SpanFound(found, id, tok) ==
    \E k \in DOMAIN found :
        /\ found[k].document_id = id
        /\ \E p \in DOMAIN found[k].poss :
              found[k].poss[p] = [start_pos |-> tok.start_pos, end_pos |-> tok.end_pos]

Findable(index, id, tok) ==
    /\ index.res = "ok"
    /\ search(index, tok.token).res = "ok"
    /\ SpanFound(search(index, tok.token).found, id, tok)

\* the index files the build has produced: the file write_index_to_tmp_file
\* has just written, the outputs of the merge_streams calls that returned Ok,
\* and the final file
ProducedFiles ==
    (IF single.pc = "add" THEN {fs[single.file]} ELSE {})
    \cup {merges[k].out_bytes : k \in {j \in DOMAIN merges : merges[j].res = "ok"}}
    \cup {index_bat[k] : k \in DOMAIN index_bat}

\* C1: End-to-end findability.  After a build that returned Ok, whatever the
\* number of partial indexes it flushed, there is a final file, and for every
\* document and every token extracted from it at span [s, e], loading the
\* final file and searching the token finds the document's id with [s, e].
C1_Findability ==
    SingleOk =>
        /\ index_bat # << >>
        /\ \A overflow_checks \in BOOLEAN :
           \A k \in DOMAIN assigned :
           \A j \in DOMAIN TokensOf(assigned[k].pos) :
               Findable(Loaded(overflow_checks), assigned[k].id,
                        TokensOf(assigned[k].pos)[j])

\* C2: Term coalescing.  After a build that returned Ok, for every term of
\* the documents the contents table of the final file has exactly one entry,
\* and the group of that entry holds the hit lists of exactly the documents
\* that contain the term.
C2_TermCoalescing ==
    SingleOk =>
        \A pos \in DOMAIN documents : \A term \in TermsOf(pos) :
            /\ Cardinality({k \in DOMAIN ContentsTable(index_bat[1]) :
                               ContentsTable(index_bat[1])[k].term = term}) = 1
            /\ Loaded(TRUE).res = "ok"
            /\ term \in DOMAIN Loaded(TRUE).map
            /\ {HitIds(Loaded(TRUE).map[term])[k] :
                   k \in DOMAIN Loaded(TRUE).map[term]} = IdsWith(term)

\* C3: Sorted contents table.  In every index file written by
\* write_index_to_tmp_file or by a merge_streams that returned Ok, and in the
\* final file, the term entries of the contents table are in non-decreasing
\* byte order.
C3_SortedContents ==
    \A b \in ProducedFiles : SortedByTerm(NonDocEntries(ContentsTable(b)))

\* C4: Document-id order of hits.  Ids are assigned increasingly in input
\* order; after a build that returned Ok, for every number of flushed files
\* and merges, every term of the final index has its hit lists in strictly
\* ascending document-id order.
C4_HitOrder ==
    (SingleOk /\ StrictlyAscending([k \in DOMAIN assigned |-> assigned[k].id])) =>
        \A pos \in DOMAIN documents : \A term \in TermsOf(pos) :
            /\ Loaded(TRUE).res = "ok"
            /\ term \in DOMAIN Loaded(TRUE).map
            /\ StrictlyAscending(HitIds(Loaded(TRUE).map[term]))

\* C5: Payload accounting.  In every index file written by
\* write_index_to_tmp_file or by a merge_streams that returned Ok, the sum of
\* nbytes over all the entries of the contents table equals contents_start - 8,
\* contents_start being the value of the header.
C5_PayloadAccounting ==
    \A b \in ProducedFiles :
        /\ Len(b) >= HEADER_SIZE
        /\ SumNbytes(ContentsTable(b)) = U64At(b, 0) - HEADER_SIZE

\* C6: Document ids are positive and unique.  In a pipelined build every
\* document id assigned is at least 1 and no two documents get the same id.
C6_PositiveUniqueIds ==
    /\ \A k \in DOMAIN assigned : assigned[k].id >= 1
    /\ \A k, l \in DOMAIN assigned : k # l => assigned[k].id # assigned[l].id

\* C7: Id assignment follows input order.  Under every interleaving of the
\* threads, documents are numbered in the order of the caller's list (for
\* positions i < j both indexed, id(i) < id(j)), and the indexes reach the
\* in-memory merge thread and the index writer thread in that same order.
C7_InputOrder ==
    /\ \A k, l \in DOMAIN assigned :
          k < l => (assigned[k].pos < assigned[l].pos /\ assigned[k].id < assigned[l].id)
    /\ IsPrefix(arrived.merger, [k \in DOMAIN assigned |-> assigned[k].id])
    /\ IsPrefix(Concat(arrived.writer), [k \in DOMAIN assigned |-> assigned[k].id])

\* C7 happens: in a build of at least three documents two documents have been
\* numbered, both indexes have reached the merge thread, and two large indexes
\* have reached the writer thread.
C7_Witness ==
    /\ Len(assigned) >= 2
    /\ Len(arrived.merger) >= 2
    /\ Len(arrived.writer) >= 2
    /\ Len(documents) >= 3

\* C8: No document is lost.  After a build of at least one document in which
\* every document was read and no I/O operation failed, the build has returned
\* Ok and the final file holds, for every document, a document record with its
\* id and its path; this includes documents without any word.
C8_NoDocumentLost ==
    (single.pc = "done" /\ single.result # "err" /\ Len(documents) >= 1) =>
        /\ single.result = "ok"
        /\ index_bat # << >>
        /\ Loaded(TRUE).res = "ok"
        /\ \A k \in DOMAIN assigned :
              /\ assigned[k].id \in DOMAIN Loaded(TRUE).docs
              /\ Loaded(TRUE).docs[assigned[k].id].path = documents[assigned[k].pos].path

\* C9: Empty corpus is an error value.  When FileMerge::finish has run after
\* zero add_file calls, it has returned an Err (it did not end in the failed
\* assertion) and it has created no final file.
C9_EmptyCorpusIsErr ==
    (single.pc = "done" /\ single.exit = "finish" /\ single.merge.stacks = << >>) =>
        (single.result = "err" /\ index_bat = << >>)

\* C10: First error in source-to-sink order.  When a stage of the pipeline
\* has failed (reader, writer or file merge) and the driver has stopped, the
\* driver has joined the four threads and returned the error of the earliest
\* failing stage in the order reader, writer, file merge.
C10_FirstError ==
    (/\ driver.pc \in {"done", "panicked"}
     /\ (reader.result = "err" \/ writer.result = "err" \/ driver.merge_result = "err"))
    =>
        /\ driver.pc = "done"
        /\ driver.result = IF reader.result = "err" THEN "reader_err"
                           ELSE IF writer.result = "err" THEN "writer_err"
                           ELSE "merge_err"

\* a stage of the pipeline has stopped early with an error
EarlyStop ==
    reader.result = "err" \/ writer.result = "err" \/ driver.merge_result = "err"

\* the four stage threads have returned
StagesDone ==
    /\ reader.pc = "done" /\ indexer.pc = "done"
    /\ merger.pc = "done" /\ writer.pc = "done"

\* A thread of run_pipeline can take a step: a stage thread blocks only in
\* recv on an empty channel whose Sender is alive, the driver blocks there and
\* in join on a thread that has not returned.
CanStep ==
    \/ reader.pc = "run"
    \/ indexer.pc = "run" /\ (chan.texts.q # << >> \/ ~chan.texts.tx)
    \/ merger.pc = "run" /\ (chan.pints.q # << >> \/ ~chan.pints.tx)
    \/ writer.pc = "run" /\ (chan.gallons.q # << >> \/ ~chan.gallons.tx)
    \/ driver.pc = "merge" /\ (chan.files.q # << >> \/ ~chan.files.tx)
    \/ driver.pc = "join" /\ StagesDone

\* Every step of run_pipeline uses up a document, a queued message or a
\* thread: the measure decreases, so every run is finite and, the threads
\* being scheduled fairly, ends in a state where no thread can take a step.
Remaining ==
    6 * (Len(documents) - reader.i)
    + 5 * Len(chan.texts.q) + 4 * Len(chan.pints.q)
    + 3 * Len(chan.gallons.q) + 2 * Len(chan.files.q)
    + 4 * Cardinality({t \in {reader, indexer, merger, writer} : t.pc = "run"})
    + (IF driver.pc = "merge" THEN 2 ELSE IF driver.pc = "join" THEN 1 ELSE 0)

Progress == [][Remaining' < Remaining]_vars

\* C11: Graceful shutdown without deadlock.  Once a stage has stopped early
\* with an error, the run does not come to rest (no thread able to take a
\* step) before the four stage threads have all terminated and the driver
\* has completed its joins and returned.
C11_GracefulShutdown ==
    (EarlyStop /\ ~CanStep) => (StagesDone /\ driver.pc = "done")

\* some document of the list contains a word
HasWord == \E pos \in DOMAIN documents : TokensOf(pos) # << >>

\* No I/O operation of the run has failed: the reader and the writer have
\* returned no error, and an error of the file merge, if any, is the error of
\* its last merge_streams call and not of a file creation or of the rename.
NoIoError ==
    /\ reader.result # "err"
    /\ writer.result # "err"
    /\ driver.merge_result = "err" => (merges # << >> /\ merges[Len(merges)].res = "err")

\* C12: Successful builds terminate with exactly one final file.  A pipelined
\* build of a document list that contains at least one word, without any I/O
\* error, comes to rest only after run_pipeline has returned Ok, with the final
\* file in place and no temporary file left beside it.
C12_OneFinalFile ==
    (~CanStep /\ HasWord /\ NoIoError) =>
        /\ driver.pc = "done"
        /\ driver.result = "ok"
        /\ index_bat # << >>
        /\ fs = EmptyMap

\* C13: Back-pressure.  The channels are bounded by a capacity that does not
\* depend on the number of documents: whatever that capacity is, for a list
\* with more documents than the capacity, no channel ever holds as many
\* messages as the list has documents (a producer at a full channel waits).
C13_BackPressure ==
    \A c \in {"texts", "pints", "gallons", "files"} : Len(chan[c].q) < Len(documents)

\* C14: File-descriptor bound.  During every merge step the merge holds at
\* most NSTREAMS + 1 open file handles: those of its input readers plus the
\* output file.
C14_FdBound == \A k \in DOMAIN merges : merges[k].handles <= NSTREAMS + 1

\* the paths held in the stacks of the FileMerge m; finish(mut self) consumes
\* the FileMerge, and run_single_threaded returns when add_file fails, so
\* there are no stacks any more once the run is done
LiveStackPaths(m) ==
    IF single.pc = "done" THEN {} ELSE
    UNION {{m.stacks[l][k] : k \in DOMAIN m.stacks[l]} : l \in DOMAIN m.stacks}

\* what IndexFileWriter::finish leaves in a file: a header that gives the
\* start of the contents table, after the header and inside the file
CompletelyWritten(b) ==
    /\ Len(b) >= HEADER_SIZE
    /\ ~U64TopBit(b, 0)
    /\ U64At(b, 0) >= HEADER_SIZE
    /\ U64At(b, 0) <= Len(b)

\* C15: Temp-file lifecycle.  Every path held in FileMerge's stacks names a
\* file that exists and is completely written, and after a successful finish
\* no temp file created by the run remains in the output directory.
C15_TempFileLifecycle ==
    /\ \A f \in LiveStackPaths(single.merge) :
            f \in DOMAIN fs /\ CompletelyWritten(fs[f])
    /\ SingleOk => fs = EmptyMap

\* the next create() of the FlushWriter's TmpDir and of the FileMerger's
NextCreates ==
    {TmpDirCreate(writer.tmp_n, DOMAIN fs), TmpDirCreate(driver.merge.n, DOMAIN fs)}

\* C16: Temp-name allocation across two allocators.  Whatever the interleaving
\* of the two allocators so far, the next create() of either succeeds (it has
\* met fewer than 999 collisions) and returns a path at which no file exists;
\* and no step changes the contents of a temp file that exists before and
\* after it.
C16_FreshTempNames ==
    /\ [](\A c \in NextCreates : c.ok /\ c.filename \notin DOMAIN fs)
    /\ [][\A f \in DOMAIN fs \cap DOMAIN fs' : fs'[f] = fs[f]]_vars

\* the FileMerger has called create() once, on a counter that stood at a
\* file of the FlushWriter: it skipped the existing names and the file it
\* created is in the directory
C16_Witness ==
    /\ Len(merges) = 1
    /\ driver.merge.n > 2
    /\ (driver.merge.n - 1) \in DOMAIN fs
    /\ writer.tmp_n > 1

\* the document id run_single_threaded gives the document at position pos of
\* the list: (doc_id + 1) as u32, with doc_id counted from 0 by enumerate()
SingleDocId(pos) == (pos - 1) + 1

\* run_pipeline has returned Ok and left a final file
PipelineOk == driver.pc = "done" /\ driver.result = "ok" /\ index_bat # << >>

\* the documents of the final file as the Searcher loads it
LoadedDocs == IF Loaded(FALSE).res = "ok" THEN Loaded(FALSE).docs ELSE EmptyMap

\* C17: Single-threaded and pipelined builds are equivalent.  For the same
\* document list, every document in the final index of the pipelined build
\* has the id the single-threaded build gives to its path.
C17_BuildsEquivalent ==
    PipelineOk =>
        \A id \in DOMAIN LoadedDocs :
        \E pos \in DOMAIN documents :
            /\ documents[pos].path = LoadedDocs[id].path
            /\ id = SingleDocId(pos)

\* C18: Out-of-bounds contents_start is rejected.  When the header of the
\* file gives a contents_start beyond the end of the file, reading it fails:
\* from_index_file returns an error, and so does a merge of the file; the
\* open does not succeed with an empty contents table.
C18_HeaderOutOfBounds ==
    searcher.damage = "header" =>
        /\ searcher.pc = "loaded" => searcher.loaded[1].res = "err"
        /\ searcher.pc = "merged" => merges[1].res = "err"

\* the contents-table entries of the file bytes b from position pos on, as
\* read_entry finds them: where each starts and where it ends
RECURSIVE EntrySpans(_, _)
EntrySpansFrom(b, pos, e) ==
    IF e.res # "some" THEN << >>
    ELSE << [first |-> pos, end |-> e.pos] >> \o EntrySpans(b, e.pos)

EntrySpans(b, pos) == EntrySpansFrom(b, pos, read_entry(b, pos))

\* cutting the file with bytes b to cut bytes cuts an entry of its contents
\* table off after the first 8 bytes of the entry
CutInsideEntry(b, cut) ==
    \E k \in DOMAIN EntrySpans(b, U64At(b, 0)) :
        /\ EntrySpans(b, U64At(b, 0))[k].first + 8 <= cut
        /\ cut < EntrySpans(b, U64At(b, 0))[k].end

\* C19: Truncated contents entries surface as errors on every read path.
\* When an entry of the contents table is cut off after its first 8 bytes,
\* from_index_file returns an error instead of a shortened index, and a
\* merge that reads the file through move_entry_to fails.
C19_TruncationIsAnError ==
    (searcher.damage = "truncated" /\ CutInsideEntry(searcher.written, searcher.cut)) =>
        /\ searcher.pc = "loaded" => searcher.loaded[1].res = "err"
        /\ searcher.pc = "merged" => merges[1].res = "err"

\* the number of (start, end) spans of the hits of a term: a hit is the
\* separator, the document id and 8 bytes for every span
RECURSIVE SpansOfHits(_)
SpansOfHits(hits) ==
    IF hits = << >> THEN 0
    ELSE (Len(Head(hits)) - 8) \div 8 + SpansOfHits(Tail(hits))

\* the total number of occurrences recorded in an index
RECURSIVE OccurrencesOf(_, _)
OccurrencesOf(index, terms) ==
    IF terms = << >> THEN 0
    ELSE SpansOfHits(index.map[Head(terms)]) + OccurrencesOf(index, Tail(terms))

Occurrences(index) == OccurrencesOf(index, SortTerms(DOMAIN index.map))

\* C20: Write/read round trip.  Loading the undamaged file written by
\* write_index_to_tmp_file(I) with from_index_file succeeds and yields, for
\* every term of I, the same sequence of hits (document id and spans), the
\* same docs map, and a word_count equal to the number of occurrences in I.
C20_RoundTrip ==
    (searcher.pc = "loaded" /\ searcher.damage = "none") =>
        /\ searcher.loaded[1].res = "ok"
        /\ searcher.loaded[1].map = searcher.index.map
        /\ \A t \in DOMAIN searcher.index.map :
              search(searcher.loaded[1], t) = search(searcher.index, t)
        /\ searcher.loaded[1].docs = searcher.index.docs
        /\ searcher.loaded[1].word_count = Occurrences(searcher.index)

\* an index of two documents that share a term, one of them holding the term
\* twice, has been written and loaded back
C20_Witness ==
    /\ searcher.pc = "loaded" /\ searcher.damage = "none"
    /\ searcher.loaded[1].res = "ok"
    /\ \E t \in DOMAIN searcher.index.map :
          /\ Len(searcher.index.map[t]) = 2
          /\ SpansOfHits(searcher.index.map[t]) = 3
    /\ Cardinality(DOMAIN searcher.index.docs) = 2

\* the contents entries an IndexFileWriter has recorded with
\* write_contents_entry, as they would be read back after finish()
RecordedTable(w) == ContentsTable(WriterFinish(w))

\* the first entry starts right after the header and every entry starts where
\* the payload of the one before it ends
OffsetsChained(table) ==
    /\ table # << >> => table[1].offset = HEADER_SIZE
    /\ \A k \in 1..(Len(table) - 1) :
          table[k + 1].offset = table[k].offset + table[k].nbytes

\* C21: Contents offsets point at the payload.  In the file of every flush
\* and in the contents entries recorded by every merge_streams that returned
\* Ok, the first entry has offset 8 and every following entry has offset =
\* previous offset + previous nbytes.
C21_OffsetsPointAtPayload ==
    /\ single.pc = "add" => OffsetsChained(ContentsTable(fs[single.file]))
    /\ \A k \in DOMAIN merges :
          merges[k].res = "ok" => OffsetsChained(RecordedTable(merges[k].output))

\* the number of files given to add_file that went into the file f, by the
\* first k merges of the history
RECURSIVE Originals(_, _)
RECURSIVE OriginalsOfAll(_, _)
OriginalsOfAll(files, k) ==
    IF files = << >> THEN 0
    ELSE Originals(Head(files), k) + OriginalsOfAll(Tail(files), k)

Originals(f, k) ==
    IF k = 0 THEN 1
    ELSE IF merges[k].out = f THEN OriginalsOfAll(merges[k].files, k - 1)
    ELSE Originals(f, k - 1)

RECURSIVE Pow(_, _)
Pow(b, e) == IF e = 0 THEN 1 ELSE b * Pow(b, e - 1)

\* the number whose base-NSTREAMS digits are the lengths of the stacks
RECURSIVE StackNumber(_, _)
StackNumber(stacks, l) ==
    IF l > Len(stacks) THEN 0
    ELSE Len(stacks[l]) * Pow(NSTREAMS, l - 1) + StackNumber(stacks, l + 1)

\* C22: Stack invariant of FileMerge.  After every add_file that returned Ok,
\* every stack holds fewer than NSTREAMS files, each file on stack k is the
\* merge of exactly NSTREAMS^k files given to add_file, and the stack lengths
\* are the base-NSTREAMS digits of the number of add_file calls.
C22_StackInvariant ==
    single.pc \in {"loop", "write", "add", "finish"} =>
        /\ \A l \in DOMAIN single.merge.stacks :
              /\ Len(single.merge.stacks[l]) < NSTREAMS
              /\ \A k \in DOMAIN single.merge.stacks[l] :
                    Originals(single.merge.stacks[l][k], Len(merges))
                        = Pow(NSTREAMS, l - 1)
        /\ StackNumber(single.merge.stacks, 1) = single.added

\* NSTREAMS + 1 files have been added: one merged file stands on stack 1 and
\* one file on stack 0
C22_Witness ==
    /\ single.pc \in {"loop", "finish"}
    /\ single.added = NSTREAMS + 1
    /\ Len(single.merge.stacks) = 2
    /\ Len(single.merge.stacks[1]) = 1
    /\ Len(single.merge.stacks[2]) = 1
    /\ Len(merges) = 1 /\ merges[1].res = "ok"

\* C23: Merge fan-in bound.  Every call of merge_streams, from add_file and
\* from finish through merge_reversed, receives at least 2 and at most
\* NSTREAMS input files.
C23_FanIn ==
    \A k \in DOMAIN merges : 2 <= Len(merges[k].files) /\ Len(merges[k].files) <= NSTREAMS

\* add_file has merged a full stack of NSTREAMS files and finish has then
\* merged the two files that were left
C23_Witness ==
    /\ single.pc = "done" /\ single.exit = "finish"
    /\ Len(merges) = 2
    /\ Len(merges[1].files) = NSTREAMS
    /\ Len(merges[2].files) = 2

\* the stacks flattened from the highest level down to level 0, each level in
\* reverse insertion order
HighestFirst(stacks) ==
    Concat([k \in 1..Len(stacks) |-> Reverse(stacks[Len(stacks) + 1 - k])])

\* C24: Flattening order in finish().  The working list of finish() holds the
\* files of the stacks from the highest level down to level 0, each level in
\* reverse insertion order.
C24_FlatteningOrder ==
    single.pc = "finish" =>
        FinishOrder(single.merge.stacks) = HighestFirst(single.merge.stacks)

\* the number of readers whose peek() is Some
Active(streams) == Cardinality({k \in DOMAIN streams : streams[k].next # << >>})

\* The while loop of merge_streams followed from the state (streams, output,
\* point, count): at the start of every iteration count is the number of
\* active readers; when it is positive the scan selects a term, the move loop
\* does not panic and, unless it fails with an I/O error, advances a reader.
RECURSIVE CounterTracks(_, _, _, _)
CounterTracksMoved(streams, sel, point, mv) ==
    /\ mv.res # "panic"
    /\ mv.res = "ok" =>
          /\ mv.streams # streams
          /\ CounterTracks(mv.streams,
                 write_contents_entry(mv.out, sel.term[1], sel.df, point, sel.nbytes),
                 Sat(point + sel.nbytes), mv.count)

CounterTracksSelected(streams, output, point, count, sel) ==
    /\ sel.term # << >>
    /\ CounterTracksMoved(streams, sel, point,
                          MoveEntries(streams, 1, sel.term[1], output, count))

CounterTracks(streams, output, point, count) ==
    /\ count = Active(streams)
    /\ count > 0 =>
          CounterTracksSelected(streams, output, point, count,
              SelectTerm(streams, 1, [term |-> << >>, nbytes |-> 0, df |-> 0]))

\* the input files of the merge_streams call that the next step of
\* run_single_threaded makes first, << >> if it makes none: add_file on a
\* stack 0 that becomes full, or finish on more than one file
PendingMerge ==
    IF /\ single.pc = "add"
       /\ single.merge.stacks # << >>
       /\ Len(single.merge.stacks[1]) = NSTREAMS - 1
    THEN Append(single.merge.stacks[1], single.file)
    ELSE IF /\ single.pc = "finish"
            /\ Len(FinishOrder(single.merge.stacks)) > 1
            /\ Len(FinishOrder(single.merge.stacks)) <= NSTREAMS
    THEN Reverse(FinishOrder(single.merge.stacks))
    ELSE << >>

CounterTracksFrom(streams) ==
    CounterTracks(streams, IndexFileWriterNew, 0, Active(streams))

\* C25: Active-reader counter and selection assertion in merge_streams.  In
\* every merge, at the start of every loop iteration the counter equals the
\* number of readers whose peek() is Some; whenever it is positive the scan
\* yields a term and a reader is advanced; the loop ends with every reader
\* exhausted, and no merge ends in a panic.
C25_ActiveCounter ==
    /\ (/\ PendingMerge # << >>
        /\ OpenedPrefix(fs, PendingMerge, 1) = Len(PendingMerge)) =>
          CounterTracksFrom([k \in DOMAIN PendingMerge |->
                                open_and_delete(fs[PendingMerge[k]])])
    /\ \A k \in DOMAIN merges : merges[k].res # "panic"

\* a merge of NSTREAMS flush files is about to run, all of them open, one of
\* them with at least three contents entries
C25_Witness ==
    /\ Len(PendingMerge) = NSTREAMS
    /\ OpenedPrefix(fs, PendingMerge, 1) = NSTREAMS
    /\ \E k \in DOMAIN PendingMerge :
          Len(ContentsTable(fs[PendingMerge[k]])) >= 3

\* the document entries of a contents table
DocEntries(table) == SelectSeq(table, IsDocEntry)

RECURSIVE InputDocEntries(_, _)
InputDocEntries(files, k) ==
    IF k > Len(files) THEN << >>
    ELSE DocEntries(ContentsTable(fs[files[k]])) \o InputDocEntries(files, k + 1)

\* the merge ms of the files has recorded one document entry, with df = 0 and
\* its own nbytes, for every document entry of its inputs
DocsCarried(inputs, ms) ==
    ms.res = "ok" =>
        /\ Len(DocEntries(RecordedTable(ms.output))) = Len(inputs)
        /\ SumNbytes(DocEntries(RecordedTable(ms.output))) = SumNbytes(inputs)
        /\ \A e \in {inputs[k] : k \in DOMAIN inputs} :
              \E k \in DOMAIN RecordedTable(ms.output) :
                  /\ IsDocEntry(RecordedTable(ms.output)[k])
                  /\ RecordedTable(ms.output)[k].nbytes = e.nbytes

\* C26: Document records survive merging one by one.  Every merge records
\* exactly one document entry, with df = 0 and the record's own nbytes, for
\* every document record of its inputs; and after a build of documents that
\* all have a word has returned Ok, the final file has exactly one document
\* record per indexed document id.
C26_DocumentRecords ==
    /\ (/\ PendingMerge # << >>
        /\ OpenedPrefix(fs, PendingMerge, 1) = Len(PendingMerge)) =>
          DocsCarried(InputDocEntries(PendingMerge, 1), merge_streams(fs, PendingMerge))
    /\ (SingleOk /\ \A pos \in DOMAIN documents : TokensOf(pos) # << >>) =>
          /\ Len(DocEntries(ContentsTable(index_bat[1]))) = Len(assigned)
          /\ DOMAIN LoadedDocs = {assigned[k].id : k \in DOMAIN assigned}

\* the number of hit separators at the 4-byte items of a payload
RECURSIVE SeparatorCount(_, _)
SeparatorCount(data, pos) ==
    IF pos + 4 > Len(data) THEN 0
    ELSE (IF Slice(data, pos, 4) = HITS_SEPERATOR THEN 1 ELSE 0)
         + SeparatorCount(data, pos + 4)

RECURSIVE SumDf(_)
SumDf(table) == IF table = << >> THEN 0 ELSE Head(table).df + SumDf(Tail(table))

\* the entries for `term` in the contents tables of the files from k on
RECURSIVE InputEntriesAt(_, _, _)
InputEntriesAt(files, k, term) ==
    IF k > Len(files) THEN << >>
    ELSE SelectSeq(ContentsTable(fs[files[k]]), LAMBDA e : e.term = term /\ ~IsDocEntry(e))
         \o InputEntriesAt(files, k + 1, term)

\* every term entry of the table has a df equal to the number of hits in its
\* payload, the payload being the entry's nbytes bytes of `bytes` found
\* `base` bytes before its offset
DfCountsHits(table, bytes, base) ==
    \A k \in DOMAIN table :
        ~IsDocEntry(table[k]) =>
            table[k].df = SeparatorCount(
                Slice(bytes, table[k].offset - base, table[k].nbytes), 0)

\* the merge ms of the files: the df and nbytes of every term entry are the
\* sums over the input entries of that term, and df counts the hits of the
\* payload the merge wrote for the entry (point counts from the first byte
\* after the header, as main does)
DfSummed(files, ms) ==
    ms.res = "ok" =>
        /\ DfCountsHits(RecordedTable(ms.output), ms.output.main, 0)
        /\ \A k \in DOMAIN RecordedTable(ms.output) :
              ~IsDocEntry(RecordedTable(ms.output)[k]) =>
                  /\ RecordedTable(ms.output)[k].df =
                        SumDf(InputEntriesAt(files, 1, RecordedTable(ms.output)[k].term))
                  /\ RecordedTable(ms.output)[k].nbytes =
                        SumNbytes(InputEntriesAt(files, 1, RecordedTable(ms.output)[k].term))

\* the merge that is about to run has flush files for input, all of which open
FlushMergePending ==
    /\ PendingMerge # << >>
    /\ merges = << >>
    /\ OpenedPrefix(fs, PendingMerge, 1) = Len(PendingMerge)

EmittedIds ==
    Concat(arrived.writer)
    \o Concat([k \in DOMAIN chan.gallons.q |->
                  Ascending(DOMAIN chan.gallons.q[k].docs)])

\* C28: InMemoryMerger emission rule.  No emitted index is empty and every
\* emitted index except possibly the last is large; and when the stage has
\* ended while its consumers were running without an error, every partial
\* index it received is contained in exactly one emitted index, in arrival
\* order.
C28_EmissionRule ==
    /\ \A k \in DOMAIN chan.gallons.q :
          /\ ~is_empty(chan.gallons.q[k])
          /\ (k < Len(chan.gallons.q) \/ merger.pc = "run") =>
                is_large(chan.gallons.q[k])
    /\ (/\ merger.pc = "done"
        /\ writer.result # "err"
        /\ driver.merge_result \in {"none", "ok"}) =>
          EmittedIds = arrived.merger

\* C29: PartialIndex invariants under from_single_document and merge.  The
\* accumulated index, merged from single-document indexes with increasing
\* document ids, has for every term a non-empty sequence of hits in strictly
\* ascending document-id order, and a word_count equal to the total number
\* of spans over all its hits.
C29_IndexInvariants ==
    single.pc # "idle" =>
        /\ \A t \in DOMAIN single.accumulated_index.map :
              /\ single.accumulated_index.map[t] # << >>
              /\ StrictlyAscending(HitIds(single.accumulated_index.map[t]))
        /\ single.accumulated_index.word_count = Occurrences(single.accumulated_index)

\* an accumulated index of several documents in which a term has hits of two
\* documents, one of them with two spans
C29_Witness ==
    /\ single.pc = "write"
    /\ Cardinality(DOMAIN single.accumulated_index.docs) >= 2
    /\ \E t \in DOMAIN single.accumulated_index.map :
          /\ Len(single.accumulated_index.map[t]) >= 2
          /\ SpansOfHits(single.accumulated_index.map[t]) >= 3

\* C30: Token span extent.  For every document indexed so far, each token
\* has start = byte offset of its first character and end = byte offset of
\* the last byte of its last character, so end >= start and end = start +
\* (length of the token in bytes) - 1; a text that is a single alphanumeric
\* run yields the one span [0, len - 1].
C30_TokenSpans ==
    \A pos \in 1..(IF single.pc = "idle" THEN 0 ELSE single.i) :
        /\ \A k \in DOMAIN TokensOf(pos) :
              /\ TokensOf(pos)[k].end_pos >= TokensOf(pos)[k].start_pos
              /\ TokensOf(pos)[k].end_pos =
                    TokensOf(pos)[k].start_pos + Len(TokensOf(pos)[k].token) - 1
        /\ (/\ documents[pos].text # << >>
            /\ \A j \in DOMAIN documents[pos].text :
                  IsAlphanumeric(documents[pos].text[j])) =>
              /\ Len(TokensOf(pos)) = 1
              /\ TokensOf(pos)[1].start_pos = 0
              /\ TokensOf(pos)[1].end_pos =
                    Len(Utf8Bytes(ToLowercase(documents[pos].text))) - 1

\* the bytes of a rendering with every opening and closing marker removed
RECURSIVE StripMarkers(_)
StripMarkers(b) ==
    IF b = << >> THEN << >>
    ELSE IF Len(b) >= 5 /\ SubSeq(b, 1, 5) = MarkerOpen
    THEN StripMarkers(SubSeq(b, 6, Len(b)))
    ELSE IF Len(b) >= 4 /\ SubSeq(b, 1, 4) = MarkerClose
    THEN StripMarkers(SubSeq(b, 5, Len(b)))
    ELSE << Head(b) >> \o StripMarkers(Tail(b))

\* a span that is not invalid for the text: not start > len, not end >= len,
\* not start > end
ValidSpan(text, pos) == pos.start_pos <= pos.end_pos /\ pos.end_pos < Len(text)

\* the valid spans among the first k - 1 of poss
ValidBefore(text, poss, k) == {j \in 1..(k - 1) : ValidSpan(text, poss[j])}

\* in the rendering out, the text of pos stands shift bytes further on,
\* between one opening and one closing marker
Enclosed(text, out, pos, shift, n) ==
    /\ Len(out) >= pos.start_pos + shift + n + 9
    /\ Slice(out, pos.start_pos + shift, 5) = MarkerOpen
    /\ Slice(out, pos.start_pos + shift + 5, n) = Slice(text, pos.start_pos, n)
    /\ Slice(out, pos.start_pos + shift + 5 + n, 4) = MarkerClose

\* the valid spans are spans of whole characters and do not overlap
SpansOfText(text, poss) ==
    \A j \in DOMAIN poss :
        ValidSpan(text, poss[j]) =>
            /\ is_char_boundary(text, poss[j].start_pos)
            /\ is_char_boundary(text, poss[j].end_pos + 1)
            /\ \A k \in DOMAIN poss :
                  (k # j /\ ValidSpan(text, poss[k])) =>
                     \/ poss[k].end_pos < poss[j].start_pos
                     \/ poss[j].end_pos < poss[k].start_pos

\* C31: Highlight offset shifting.  When highlight_file has read the file
\* and gone through spans whose valid members are non-overlapping spans of
\* whole characters, it returns Ok; the spans were processed in ascending
\* start order; removing all markers from the rendering gives back the
\* text; the rendering is longer than the text by 9 bytes per valid span
\* (an invalid span inserts nothing); and every valid span's text stands
\* between one opening and one closing marker, shifted by 9 bytes per valid
\* span before it.
C31_HighlightShift ==
    (/\ searcher.pc \in {"done", "panicked"}
     /\ searcher.result # "err"
     /\ SpansOfText(searcher.file, searcher.poss)) =>
        /\ searcher.result = "ok"
        /\ \A k \in 1..(Len(searcher.poss) - 1) :
              searcher.poss[k].start_pos <= searcher.poss[k + 1].start_pos
        /\ StripMarkers(searcher.origin_text) = searcher.file
        /\ Len(searcher.origin_text) =
              Len(searcher.file)
              + 9 * Cardinality(ValidBefore(searcher.file, searcher.poss,
                                            Len(searcher.poss) + 1))
        /\ \A k \in DOMAIN searcher.poss :
              ValidSpan(searcher.file, searcher.poss[k]) =>
                 Enclosed(searcher.file, searcher.origin_text, searcher.poss[k],
                          9 * Cardinality(ValidBefore(searcher.file, searcher.poss, k)),
                          searcher.poss[k].end_pos + 1 - searcher.poss[k].start_pos)

\* C32: No final index from a failed build.  Once the file reader thread or
\* the index writer thread of run_pipeline has returned an error, the output
\* directory holds no index.bat: merge_index_files does not finish the build
\* from the documents processed before the failure.
C32_NoIndexFromFailedBuild ==
    (reader.result = "err" \/ writer.result = "err") => index_bat = << >>

=============================================================================
